---------------------------- MODULE Spec2Model ----------------------------
(***************************************************************************)
(* A model of aiochclient: the type codec (escape codec, sequence          *)
(* tokenizer, type registry, py2ch), the lazily decoded Record and its     *)
(* RecordsFabric, the HTTP line clients and ChClient._execute.             *)
(*                                                                         *)
(* Text is a sequence of one-character strings.  A wire type name is a     *)
(* sequence of tokens: an identifier (UInt8, Map, ...) is one token and    *)
(* every punctuation character ( ) , and the space is a token of its own,  *)
(* which is the granularity at which types.py cuts type names.             *)
(***************************************************************************)
EXTENDS Integers, Sequences, FiniteSets, TLC

VARIABLES
    job,        \* which operation this run exercises
    sp_raw,     \* seq_parser: the argument raw
    sp_pos,     \* seq_parser: number of symbols of raw consumed by the loop
    sp_st,      \* seq_parser: cur, in_str, in_arr, in_tup, escape_char, yielded
    sp_done,    \* seq_parser: the generator has returned
    cv_type,    \* conversion: the wire type name
    cv_val,     \* conversion: the native value to encode (round trip runs)
    cv_wire,    \* conversion: the wire text, given or produced by py2ch
    cv_desc,    \* conversion: the result of what_py_type
    cv_out,     \* conversion: the result of convert
    cv_pc,      \* conversion: start, encoded, resolved, decoded or raised
    rf_names,   \* result set: the names header line
    rf_tps,     \* result set: the types header line
    rf_convert, \* result set: the convert argument of RecordsFabric
    fabric,         \* result set: the RecordsFabric, once built
    record,        \* result set: the Record of the current data line
    record_res,    \* result set: the last operation on record and its result
    call,       \* client: the _execute call, its arguments and how far it got
    http_log,   \* client: the calls _execute made on the HTTP client
    resp,       \* HTTP client: the response of the server
    http,       \* HTTP client: the method running, its buffer and its outcome
    client_params,  \* client: self.params, shared by the calls on the client
    csv         \* CSV-file insert: the locals of the loop and the POSTs made

spVars == <<sp_raw, sp_pos, sp_st, sp_done>>
cvVars == <<cv_type, cv_val, cv_wire, cv_desc, cv_out, cv_pc>>
rfVars == <<rf_names, rf_tps, rf_convert, fabric, record, record_res>>
clVars == <<call, http_log, resp, http, client_params>>
vars == <<job, spVars, cvVars, rfVars, clVars, csv>>

(***************************************************************************)
(* Bounds                                                                  *)
(***************************************************************************)
MaxRawLen == 4
MaxStrLen == 2
MaxCols == 3
MaxAccess == 2
MaxParamLen == 3
MaxBodyLen == 3
MaxChunks == 2
MaxEscLen == 4
MaxRows == 2
MaxBatches == 3
MaxRecords == 3

(***************************************************************************)
(* Text helpers                                                            *)
(***************************************************************************)
SeqsUpTo(S, n) == UNION {[1..k -> S] : k \in 0..n}

RECURSIVE Concat(_)
Concat(ss) ==
    IF ss = <<>> THEN <<>> ELSE Head(ss) \o Concat(Tail(ss))

RECURSIVE Join(_, _)
Join(sep, ss) ==
    IF ss = <<>> THEN <<>>
    ELSE IF Len(ss) = 1 THEN ss[1]
    ELSE ss[1] \o sep \o Join(sep, Tail(ss))

(***************************************************************************)
(* BaseType: the delimiters of composite literals                          *)
(***************************************************************************)
DQ == "'"
CM == ","
ESCAPE_OP == "\\"
TUP_OP == "("
TUP_CLS == ")"
ARR_OP == "["
ARR_CLS == "]"

(***************************************************************************)
(* BaseType.seq_parser                                                     *)
(***************************************************************************)
SeqStart ==
    [cur |-> <<>>, in_str |-> FALSE, in_arr |-> FALSE, in_tup |-> FALSE,
     escape_char |-> FALSE, yielded |-> <<>>]

\* seq_parser_flags without the branch that opens a tuple.
seq_parser_flags_no_tuple(st, sym) ==
    IF ~(st.in_str \/ st.in_arr \/ st.in_tup)
    THEN IF sym = DQ THEN [st EXCEPT !.in_str = ~st.in_str]
         ELSE IF sym = ARR_OP THEN [st EXCEPT !.in_arr = TRUE]
         ELSE st
    ELSE IF st.in_str /\ sym = DQ
    THEN IF ~st.escape_char THEN [st EXCEPT !.in_str = ~st.in_str] ELSE st
    ELSE IF st.in_arr /\ sym = ARR_CLS THEN [st EXCEPT !.in_arr = FALSE]
    ELSE st

\* The if/elif chain of the loop body that updates the nesting flags.
seq_parser_flags(st, sym) ==
    IF ~(st.in_str \/ st.in_arr \/ st.in_tup)
    THEN IF sym = DQ THEN [st EXCEPT !.in_str = ~st.in_str]
         ELSE IF sym = ARR_OP THEN [st EXCEPT !.in_arr = TRUE]
         ELSE IF sym = TUP_OP THEN [st EXCEPT !.in_tup = TRUE]
         ELSE st
    ELSE IF st.in_str /\ sym = DQ
    THEN IF ~st.escape_char THEN [st EXCEPT !.in_str = ~st.in_str] ELSE st
    ELSE IF st.in_arr /\ sym = ARR_CLS THEN [st EXCEPT !.in_arr = FALSE]
    ELSE IF st.in_tup /\ sym = TUP_CLS THEN [st EXCEPT !.in_tup = FALSE]
    ELSE st

\* A variant of the loop body in which a backslash inside a string sets
\* escape_char instead of toggling it.
seq_parser_sym_sticky_escape(st, sym) ==
    IF ~(st.in_str \/ st.in_arr \/ st.in_tup) /\ sym = CM
    THEN [st EXCEPT !.yielded = Append(@, st.cur), !.cur = <<>>]
    ELSE LET s1 == seq_parser_flags(st, sym)
         IN  [s1 EXCEPT !.escape_char = s1.in_str /\ sym = ESCAPE_OP,
                        !.cur = Append(@, sym)]

\* One iteration of "for sym in raw": a top-level comma yields cur and
\* continues; any other symbol updates the flags and is appended to cur.
seq_parser_sym(st, sym) ==
    IF ~(st.in_str \/ st.in_arr \/ st.in_tup) /\ sym = CM
    THEN [st EXCEPT !.yielded = Append(@, st.cur), !.cur = <<>>]
    ELSE LET s1 == seq_parser_flags(st, sym)
         IN  [s1 EXCEPT !.escape_char =
                            IF s1.in_str /\ sym = ESCAPE_OP
                            THEN ~s1.escape_char ELSE FALSE,
                        !.cur = Append(@, sym)]

\* The statement after the loop: the last element is yielded, also when empty.
seq_parser_end(st) == [st EXCEPT !.yielded = Append(@, st.cur), !.cur = <<>>]

RECURSIVE seq_parser_loop(_, _, _)
seq_parser_loop(st, raw, i) ==
    IF i > Len(raw) THEN st
    ELSE seq_parser_loop(seq_parser_sym(st, raw[i]), raw, i + 1)

\* list(seq_parser(raw)): "if not raw: return None" yields nothing.
seq_parser(raw) ==
    IF raw = <<>> THEN <<>>
    ELSE seq_parser_end(seq_parser_loop(SeqStart, raw, 1)).yielded

(***************************************************************************)
(* Python values and exceptions.  Every value is a record tagged by the    *)
(* exact Python type, which is what py2ch dispatches on.  A dict is the    *)
(* sequence of its (key, value) items in insertion order.  Text is ASCII,  *)
(* so bytes.decode() and str.encode() do not change the characters.        *)
(***************************************************************************)
PyStr(s) == [t |-> "str", v |-> s]
PyInt(n) == [t |-> "int", v |-> n]
PyBool(b) == [t |-> "bool", v |-> b]
PyNone == [t |-> "NoneType", v |-> 0]
PyList(xs) == [t |-> "list", v |-> xs]
PyTuple(xs) == [t |-> "tuple", v |-> xs]
PyDict(items) == [t |-> "dict", v |-> items]
Raised(e) == [t |-> "exception", v |-> e]
RaisedWith(e, msg) == [t |-> "exception", v |-> e, msg |-> msg]
IsRaised(x) == x.t = "exception"

\* The first exception of a sequence of results, as a comprehension that
\* evaluates them in order propagates it; the sequence itself when none raised.
FirstRaised(xs) ==
    IF \E i \in 1..Len(xs) : IsRaised(xs[i])
    THEN xs[CHOOSE i \in 1..Len(xs) :
                /\ IsRaised(xs[i])
                /\ \A j \in 1..(i - 1) : ~IsRaised(xs[j])]
    ELSE Raised("none")

AnyRaised(xs) == \E i \in 1..Len(xs) : IsRaised(xs[i])

(***************************************************************************)
(* Text slicing as Python does it                                          *)
(***************************************************************************)
\* s[1:-1]
Inner(s) == IF Len(s) <= 2 THEN <<>> ELSE SubSeq(s, 2, Len(s) - 1)

\* The index of the first occurrence of c in s, 0 when there is none.
Find(s, c) ==
    IF \E i \in 1..Len(s) : s[i] = c
    THEN CHOOSE i \in 1..Len(s) : s[i] = c /\ \A j \in 1..(i - 1) : s[j] # c
    ELSE 0

\* The index of the last occurrence of c in s, 0 when there is none.
RFind(s, c) ==
    IF \E i \in 1..Len(s) : s[i] = c
    THEN CHOOSE i \in 1..Len(s) :
             s[i] = c /\ \A j \in (i + 1)..Len(s) : s[j] # c
    ELSE 0

\* s.strip(chars): leading and trailing members of chars removed.
RECURSIVE LStrip(_, _)
LStrip(s, chars) ==
    IF s # <<>> /\ Head(s) \in chars THEN LStrip(Tail(s), chars) ELSE s

RECURSIVE RStrip(_, _)
RStrip(s, chars) ==
    IF s # <<>> /\ s[Len(s)] \in chars
    THEN RStrip(SubSeq(s, 1, Len(s) - 1), chars) ELSE s

Strip(s, chars) == RStrip(LStrip(s, chars), chars)

\* s.split(sep): the pieces between the occurrences of sep.
RECURSIVE Split(_, _)
Split(s, sep) ==
    LET i == Find(s, sep)
    IN  IF i = 0 THEN <<s>>
        ELSE <<SubSeq(s, 1, i - 1)>> \o Split(SubSeq(s, i + 1, Len(s)), sep)

(***************************************************************************)
(* BaseType.decode: the escape codec                                       *)
(***************************************************************************)
BS == "<backspace>"
ESC_CHR == {"b", "N", "f", "r", "n", "t", "0", "'", "\\"}

ESC_CHR_MAPPING(c) ==
    CASE c = "b" -> <<BS>>
      [] c = "N" -> <<"\\", "N">>
      [] c = "f" -> <<"\f">>
      [] c = "r" -> <<"\r">>
      [] c = "n" -> <<"\n">>
      [] c = "t" -> <<"\t">>
      [] c = "0" -> <<" ">>
      [] c = "'" -> <<"'">>
      [] c = "\\" -> <<"\\">>

\* A variant that keeps the backslash before a byte that has no entry.
EscGet_keep_backslash(c) ==
    IF c \in ESC_CHR THEN ESC_CHR_MAPPING(c) ELSE <<"\\", c>>

\* ESC_CHR_MAPPING.get(c, c)
EscGet(c) == IF c \in ESC_CHR THEN ESC_CHR_MAPPING(c) ELSE <<c>>

\* The while loop of decode: d ends with the backslash that opened the pair
\* and b starts with the byte that follows it.
RECURSIVE decode_loop(_, _)
decode_loop(d, b) ==
    IF b = <<>> THEN d
    ELSE LET d1 == SubSeq(d, 1, Len(d) - 1) \o EscGet(b[1])
             b1 == Tail(b)
             n == Find(b1, "\\")
         IN  IF n = 0 THEN d1 \o b1
             ELSE decode_loop(d1 \o SubSeq(b1, 1, n), SubSeq(b1, n + 1, Len(b1)))

decode(val) ==
    LET n == Find(val, "\\")
    IN  IF n = 0 THEN val
        ELSE decode_loop(SubSeq(val, 1, n), SubSeq(val, n + 1, Len(val)))

\* A variant that strips every leading and trailing quote, as
\* string.strip("'") would.
remove_single_quotes_strip(string) ==
    IF string = <<>> THEN Raised("IndexError")
    ELSE PyStr(Strip(string, {"'"}))

\* remove_single_quotes: string[0] of the empty string raises IndexError.
remove_single_quotes(string) ==
    IF string = <<>> THEN Raised("IndexError")
    ELSE IF string[1] = "'" /\ string[Len(string)] = "'"
    THEN PyStr(Inner(string))
    ELSE PyStr(string)

(***************************************************************************)
(* int <-> text: b"%d" % value and int(text)                               *)
(***************************************************************************)
Digits == <<"0", "1", "2", "3", "4", "5", "6", "7", "8", "9">>
DigitSet == {Digits[i] : i \in 1..10}
DigitVal(c) == (CHOOSE i \in 1..10 : Digits[i] = c) - 1

RECURSIVE NatToText(_)
NatToText(n) ==
    IF n < 10 THEN <<Digits[n + 1]>>
    ELSE NatToText(n \div 10) \o <<Digits[(n % 10) + 1]>>

IntToText(n) == IF n < 0 THEN <<"-">> \o NatToText(-n) ELSE NatToText(n)

RECURSIVE TextToNat(_)
TextToNat(s) ==
    IF s = <<>> THEN 0
    ELSE TextToNat(SubSeq(s, 1, Len(s) - 1)) * 10 + DigitVal(s[Len(s)])

\* int(text): surrounding blanks, an optional sign, then digits only.
TextToInt(text) ==
    LET s == Strip(text, {" ", "\t", "\n"})
        body == IF s # <<>> /\ s[1] \in {"-", "+"} THEN Tail(s) ELSE s
    IN  IF body = <<>> \/ \E i \in 1..Len(body) : body[i] \notin DigitSet
        THEN Raised("ValueError")
        ELSE IF s[1] = "-" THEN PyInt(-TextToNat(body))
        ELSE PyInt(TextToNat(body))

(***************************************************************************)
(* py2ch and the unconvert methods PY_TYPES_MAPPING dispatches to          *)
(***************************************************************************)
\* value.replace(old, new) for a one-character old.
RECURSIVE Replace(_, _, _)
Replace(s, old, new) ==
    IF s = <<>> THEN <<>>
    ELSE (IF Head(s) = old THEN new ELSE <<Head(s)>>)
         \o Replace(Tail(s), old, new)

\* An unconvert that escapes the quotes and leaves the backslashes alone.
StrType_unconvert_quotes_only(value) ==
    <<"'">> \o Replace(value, "'", <<"\\", "'">>) \o <<"'">>

\* StrType.unconvert: backslashes are doubled, then quotes are escaped.
StrType_unconvert(value) ==
    <<"'">> \o Replace(Replace(value, "\\", <<"\\", "\\">>), "'", <<"\\", "'">>)
            \o <<"'">>

\* BoolType.unconvert
BoolType_unconvert(value) == IF value THEN <<"1">> ELSE <<"0">>

\* IntType.unconvert
IntType_unconvert(value) == IntToText(value)

\* NullableType.unconvert
NullableType_unconvert == <<"N", "U", "L", "L">>

RECURSIVE py2ch(_)
\* py2ch of every element of xs, in order.
py2ch_each(xs) == [i \in 1..Len(xs) |-> py2ch(xs[i])]

\* key:value of every item of a dict, in order.
py2ch_items(items) ==
    [i \in 1..Len(items) |->
        LET k == py2ch(items[i][1])
            v == py2ch(items[i][2])
        IN  IF IsRaised(k) THEN k
            ELSE IF IsRaised(v) THEN v
            ELSE [t |-> "bytes", v |-> k.v \o <<":">> \o v.v]]

Bytes(s) == [t |-> "bytes", v |-> s]
BytesOf(xs) == [i \in 1..Len(xs) |-> xs[i].v]

\* TupleType.unconvert, ArrayType.unconvert, MapType.unconvert: the encoded
\* members joined by commas between the delimiters.
Composite_unconvert(open, parts, close) ==
    IF AnyRaised(parts) THEN FirstRaised(parts)
    ELSE Bytes(<<open>> \o Join(<<",">>, BytesOf(parts)) \o <<close>>)

\* py2ch: PY_TYPES_MAPPING[type(value)](value); a type that is no key of the
\* mapping raises ChClientError.
py2ch(value) ==
    CASE value.t = "bool" -> Bytes(BoolType_unconvert(value.v))
      [] value.t = "int" -> Bytes(IntType_unconvert(value.v))
      [] value.t = "str" -> Bytes(StrType_unconvert(value.v))
      [] value.t = "NoneType" -> Bytes(NullableType_unconvert)
      [] value.t = "tuple" -> Composite_unconvert("(", py2ch_each(value.v), ")")
      [] value.t = "list" -> Composite_unconvert("[", py2ch_each(value.v), "]")
      [] value.t = "dict" -> Composite_unconvert("{", py2ch_items(value.v), "}")
      [] OTHER -> Raised("ChClientError")

(***************************************************************************)
(* The type registry: CH_TYPES_MAPPING and what_py_type.  A descriptor is  *)
(* a record of its class, its container flag and its child descriptors.    *)
(***************************************************************************)
IntTypeNames ==
    {"UInt8", "UInt16", "UInt32", "UInt64", "UInt128", "UInt256",
     "Int8", "Int16", "Int32", "Int64", "Int128", "Int256"}
StrTypeNames == {"String", "FixedString", "Enum8", "Enum16"}
DecimalTypeNames == {"Decimal", "Decimal32", "Decimal64", "Decimal128"}
OtherTypeNames ==
    {"Bool", "Float32", "Float64", "Date", "DateTime", "DateTime64", "Tuple",
     "Map", "Array", "Nullable", "Nothing", "UUID", "LowCardinality", "IPv4",
     "IPv6", "Nested"}

CH_TYPE_NAMES ==
    IntTypeNames \cup StrTypeNames \cup DecimalTypeNames \cup OtherTypeNames

CH_TYPES_MAPPING(key) ==
    CASE key \in IntTypeNames -> "IntType"
      [] key \in StrTypeNames -> "StrType"
      [] key \in DecimalTypeNames -> "DecimalType"
      [] key \in {"Float32", "Float64"} -> "FloatType"
      [] key = "Nothing" -> "NothingType"
      [] OTHER -> key \o "Type"

Descriptor(cls, container, types) ==
    [t |-> "descriptor", cls |-> cls, container |-> container, types |-> types]

WS == {" ", "\t", "\n"}

\* RE_TUPLE, RE_ARRAY, RE_NULLABLE, RE_LOW_CARDINALITY, RE_MAP,
\* RE_NESTED: ^Family\((.*)\)$ applied with findall(name)[0].  The result is
\* the text between the parentheses; no match leaves no element 0.
ReFamily(family, name) ==
    IF Len(name) >= 3 /\ name[1] = family /\ name[2] = "(" /\ name[Len(name)] = ")"
    THEN Bytes(SubSeq(name, 3, Len(name) - 1))
    ELSE Raised("IndexError")

\* re.findall(r',(.*)\)', name)[0]: from the first comma to the last
\* closing parenthesis after it.
ReAggregate(name) ==
    LET i == Find(name, ",")
        j == RFind(name, ")")
    IN  IF i > 0 /\ j > i THEN Bytes(SubSeq(name, i + 1, j - 1))
        ELSE Raised("IndexError")

\* tp.rpartition(" ")[2]
AfterLastSpace(tp) == SubSeq(tp, RFind(tp, " ") + 1, Len(tp))

\* i.split(): the words of i separated by blanks.
RECURSIVE Words(_)
Words(s) ==
    LET s1 == LStrip(s, WS)
        n == IF \E i \in 1..Len(s1) : s1[i] \in WS
             THEN CHOOSE i \in 1..Len(s1) :
                      s1[i] \in WS /\ \A j \in 1..(i - 1) : s1[j] \notin WS
             ELSE 0
    IN  IF s1 = <<>> THEN <<>>
        ELSE IF n = 0 THEN <<s1>>
        ELSE <<SubSeq(s1, 1, n - 1)>> \o Words(SubSeq(s1, n + 1, Len(s1)))

RECURSIVE what_py_type(_, _)

\* TupleType.__init__
TupleType_init(name, container) ==
    LET tps == ReFamily("Tuple", name)
    IN  IF IsRaised(tps) THEN tps
        ELSE LET parts == Split(tps.v, ",")
                 types == [i \in 1..Len(parts) |->
                              what_py_type(AfterLastSpace(parts[i]), TRUE)]
             IN  IF AnyRaised(types) THEN FirstRaised(types)
                 ELSE Descriptor("TupleType", container, types)

\* MapType.__init__: tps.index(",") raises ValueError without a comma.
MapType_init(name, container) ==
    LET tps == ReFamily("Map", name)
    IN  IF IsRaised(tps) THEN tps
        ELSE LET comma_index == Find(tps.v, ",")
             IN  IF comma_index = 0 THEN Raised("ValueError")
                 ELSE LET key_type ==
                              what_py_type(SubSeq(tps.v, 1, comma_index - 1), TRUE)
                          value_type ==
                              what_py_type(
                                  SubSeq(tps.v, comma_index + 1, Len(tps.v)), TRUE)
                      IN  IF IsRaised(key_type) THEN key_type
                          ELSE IF IsRaised(value_type) THEN value_type
                          ELSE Descriptor("MapType", container,
                                          <<key_type, value_type>>)

\* ArrayType.__init__
ArrayType_init(name, container) ==
    LET inner == ReFamily("Array", name)
    IN  IF IsRaised(inner) THEN inner
        ELSE LET type == what_py_type(inner.v, TRUE)
             IN  IF IsRaised(type) THEN type
                 ELSE Descriptor("ArrayType", container, <<type>>)

\* NestedType.__init__: i.split()[1] of every comma-separated field.
NestedType_init(name, container) ==
    LET inner == ReFamily("Nested", name)
    IN  IF IsRaised(inner) THEN inner
        ELSE LET parts == Split(inner.v, ",")
                 types == [i \in 1..Len(parts) |->
                              IF Len(Words(parts[i])) < 2 THEN Raised("IndexError")
                              ELSE what_py_type(Words(parts[i])[2], TRUE)]
             IN  IF AnyRaised(types) THEN FirstRaised(types)
                 ELSE Descriptor("NestedType", container, types)

\* NullableType.__init__ and LowCardinalityType.__init__: the container
\* flag goes to the inner type and is not stored on the wrapper.
Wrapper_init(cls, family, name, container) ==
    LET inner == ReFamily(family, name)
    IN  IF IsRaised(inner) THEN inner
        ELSE LET type == what_py_type(inner.v, container)
             IN  IF IsRaised(type) THEN type
                 ELSE Descriptor(cls, FALSE, <<type>>)

\* CH_TYPES_MAPPING[ch_type](name, container=container)
Construct(cls, name, container) ==
    CASE cls = "TupleType" -> TupleType_init(name, container)
      [] cls = "MapType" -> MapType_init(name, container)
      [] cls = "ArrayType" -> ArrayType_init(name, container)
      [] cls = "NestedType" -> NestedType_init(name, container)
      [] cls = "NullableType" ->
            Wrapper_init("NullableType", "Nullable", name, container)
      [] cls = "LowCardinalityType" ->
            Wrapper_init("LowCardinalityType", "LowCardinality", name, container)
      [] OTHER -> Descriptor(cls, container, <<>>)

\* The key looked up in CH_TYPES_MAPPING, or the exception raised on the way.
ch_type_of(name) ==
    IF name # <<>> /\ name[1] \in {"SimpleAggregateFunction", "AggregateFunction"}
    THEN LET m == ReAggregate(name)
         IN  IF IsRaised(m) THEN m ELSE Bytes(Strip(m.v, WS))
    ELSE LET i == Find(name, "(")
         IN  Bytes(IF i = 0 THEN name ELSE SubSeq(name, 1, i - 1))

\* what_py_type: a KeyError of the lookup becomes ChClientError; every other
\* exception of the lookup or of the constructor propagates unchanged.
what_py_type(name0, container) ==
    LET name == Strip(name0, WS)
        ch_type == ch_type_of(name)
    IN  IF IsRaised(ch_type) THEN ch_type
        ELSE IF Len(ch_type.v) = 1 /\ ch_type.v[1] \in CH_TYPE_NAMES
        THEN Construct(CH_TYPES_MAPPING(ch_type.v[1]), name, container)
        ELSE RaisedWith("ChClientError", name)

(***************************************************************************)
(* p_type and convert of the descriptors.  The date, time, float, decimal, *)
(* UUID and IP classes are resolved by what_py_type but their parsers are  *)
(* outside the model: no run decodes with them.                            *)
(***************************************************************************)
Min(a, b) == IF a < b THEN a ELSE b

RECURSIVE p_type(_, _)

\* tuple(tp.p_type(val) for tp, val in zip(types, seq_parser(text)))
ZipPType(types, text) ==
    LET elems == seq_parser(text)
        vals == [i \in 1..Min(Len(types), Len(elems)) |-> p_type(types[i], elems[i])]
    IN  IF AnyRaised(vals) THEN FirstRaised(vals) ELSE PyTuple(vals)

\* StrType.p_type: the text is unescaped once more, then unquoted when nested.
StrType_p_type(desc, string) ==
    LET s == decode(string)
    IN  IF desc.container THEN remove_single_quotes(s) ELSE PyStr(s)

\* BoolType.p_type
BoolType_p_type(string) ==
    IF string = <<"t", "r", "u", "e">> THEN PyBool(TRUE)
    ELSE IF string = <<"f", "a", "l", "s", "e">> THEN PyBool(FALSE)
    ELSE Raised("ValueError")

\* TupleType.p_type
TupleType_p_type(desc, string) == ZipPType(desc.types, Strip(string, {"(", ")"}))

\* MapType.p_type: one key and one value around the first colon; a key that
\* decodes to a list or a dict is unhashable.
MapType_p_type(desc, string) ==
    LET text == Inner(string)
        i == Find(text, ":")
    IN  IF i = 0 THEN Raised("ValueError")
        ELSE LET key == p_type(desc.types[1], SubSeq(text, 1, i - 1))
                 value == p_type(desc.types[2], SubSeq(text, i + 1, Len(text)))
             IN  IF IsRaised(key) THEN key
                 ELSE IF IsRaised(value) THEN value
                 ELSE IF key.t \in {"list", "dict"} THEN Raised("TypeError")
                 ELSE PyDict(<<(<<key, value>>)>>)

\* ArrayType.p_type
ArrayType_p_type(desc, string) ==
    LET elems == seq_parser(Inner(string))
        vals == [i \in 1..Len(elems) |-> p_type(desc.types[1], elems[i])]
    IN  IF AnyRaised(vals) THEN FirstRaised(vals) ELSE PyList(vals)

\* NestedType.p_type
NestedType_p_type(desc, string) ==
    LET rows == seq_parser(Inner(string))
        vals == [i \in 1..Len(rows) |->
                    ZipPType(desc.types, Strip(rows[i], {"(", ")"}))]
    IN  IF AnyRaised(vals) THEN FirstRaised(vals) ELSE PyList(vals)

\* NullableType.p_type
NullableType_p_type(desc, string) ==
    IF string \in {<<"\\", "N">>, <<"N", "U", "L", "L">>} THEN PyNone
    ELSE p_type(desc.types[1], string)

p_type(desc, string) ==
    CASE desc.cls = "StrType" -> StrType_p_type(desc, string)
      [] desc.cls = "BoolType" -> BoolType_p_type(string)
      [] desc.cls = "IntType" -> TextToInt(string)
      [] desc.cls = "TupleType" -> TupleType_p_type(desc, string)
      [] desc.cls = "MapType" -> MapType_p_type(desc, string)
      [] desc.cls = "ArrayType" -> ArrayType_p_type(desc, string)
      [] desc.cls = "NestedType" -> NestedType_p_type(desc, string)
      [] desc.cls = "NullableType" -> NullableType_p_type(desc, string)
      [] desc.cls = "LowCardinalityType" -> p_type(desc.types[1], string)
      [] desc.cls = "NothingType" -> PyNone

\* convert: BaseType.convert unescapes before p_type (StrType, NullableType
\* and LowCardinalityType inherit it); the other classes override it.
convert(desc, value) ==
    CASE desc.cls \in {"StrType", "NullableType", "LowCardinalityType"} ->
            p_type(desc, decode(value))
      [] desc.cls = "NothingType" -> PyNone
      [] OTHER -> p_type(desc, value)

\* empty_convertor
empty_convertor(value) == Bytes(value)

\* what_py_converter(name).convert applied to a field: the exception of the
\* resolution when the name does not resolve.
what_py_converter(name) == what_py_type(name, FALSE)

(***************************************************************************)
(* records.py: RecordsFabric and Record.  A dict of column names is the    *)
(* sequence of its keys in insertion order with the index stored for each. *)
(* calls and accessed are history fields: how often each converter of the  *)
(* record was invoked, and how many __getitem__ calls the record has had.  *)
(***************************************************************************)
\* {key: index for (index, key) in enumerate(names)}: a repeated key keeps
\* its first position in the dict and takes the last index.
RECURSIVE DictKeys(_)
DictKeys(names) ==
    IF names = <<>> THEN <<>>
    ELSE LET front == SubSeq(names, 1, Len(names) - 1)
             last == names[Len(names)]
         IN  IF \E i \in 1..Len(front) : front[i] = last
             THEN DictKeys(front)
             ELSE Append(DictKeys(front), last)

NamesDict(names) ==
    LET keys == DictKeys(names)
    IN  [keys |-> keys,
         index |-> [i \in 1..Len(keys) |->
                       (CHOOSE j \in 1..Len(names) :
                            /\ names[j] = keys[i]
                            /\ \A k \in (j + 1)..Len(names) : names[k] # keys[i]) - 1]]

EmptyDict == [keys |-> <<>>, index |-> <<>>]

\* self._names[key]: the index stored for key, or KeyError.
DictGet(d, key) ==
    IF \E i \in 1..Len(d.keys) : d.keys[i] = key
    THEN PyInt(d.index[CHOOSE i \in 1..Len(d.keys) : d.keys[i] = key])
    ELSE Raised("KeyError")

EmptyConvertor == [t |-> "function", cls |-> "empty_convertor"]

\* RecordsFabric.__init__: both header lines are stripped and cut at tabs;
\* the first type name that does not resolve raises.
RecordsFabric_init(tps, names, convert_flag) ==
    LET name_list == Split(Strip(names, WS), "\t")
        tp_list == Split(Strip(tps, WS), "\t")
        converters == [i \in 1..Len(tp_list) |->
                          IF convert_flag THEN what_py_converter(tp_list[i])
                          ELSE EmptyConvertor]
    IN  IF AnyRaised(converters) THEN FirstRaised(converters)
        ELSE [t |-> "RecordsFabric",
              names |-> NamesDict(name_list),
              converters |-> converters]

\* A Record that takes the names and converters of the result set whatever
\* the row.
Record_init_shared(row, names, converters) ==
    [_row |-> Bytes(row), _decoded |-> FALSE, _converters |-> converters,
     _names |-> names, shared |-> TRUE,
     raw |-> row, calls |-> [i \in 1..Len(converters) |-> 0], accessed |-> 0]

\* Record.__init__: an empty row gets a list and a dict of its own.
Record_init(row, names, converters) ==
    IF row = <<>>
    THEN [_row |-> Bytes(row), _decoded |-> TRUE, _converters |-> <<>>,
          _names |-> EmptyDict, shared |-> FALSE,
          raw |-> row, calls |-> <<>>, accessed |-> 0]
    ELSE [_row |-> Bytes(row), _decoded |-> FALSE, _converters |-> converters,
          _names |-> names, shared |-> TRUE,
          raw |-> row, calls |-> [i \in 1..Len(converters) |-> 0], accessed |-> 0]

\* RecordsFabric.new: row[:-1] drops the line delimiter.
RecordsFabric_new(rf, row) ==
    Record_init(SubSeq(row, 1, Len(row) - 1), rf.names, rf.converters)

\* converter(val)
ApplyConverter(converter, val) ==
    IF converter.t = "descriptor" THEN convert(converter, val)
    ELSE empty_convertor(val)

\* Record._decode, the zip: one converter call per pair of a converter and a
\* field of the row, in order.
Record_decode_zip(rec, fields) ==
    [i \in 1..Min(Len(rec._converters), Len(fields)) |->
        ApplyConverter(rec._converters[i], fields[i])]

\* A _decode that forgets what it decoded: the converters run, the row and
\* the flag stay as they were.
Record_decode_store_forgetful(rec, vals, stop) ==
    IF stop <= Len(vals)
    THEN [rec |-> [rec EXCEPT !.calls = [i \in 1..Len(rec.calls) |->
                                  IF i <= stop THEN @[i] + 1 ELSE @[i]]],
          exc |-> vals[stop]]
    ELSE [rec |-> [rec EXCEPT !.calls = [i \in 1..Len(rec.calls) |->
                                  IF i <= Len(vals) THEN @[i] + 1 ELSE @[i]]],
          exc |-> PyNone]

\* A _decode that empties the list of converters once it has used them.
Record_decode_store_consuming(rec, vals, stop) ==
    IF stop <= Len(vals)
    THEN [rec |-> [rec EXCEPT !.calls = [i \in 1..Len(rec.calls) |->
                                  IF i <= stop THEN @[i] + 1 ELSE @[i]]],
          exc |-> vals[stop]]
    ELSE [rec |-> [rec EXCEPT !.calls = [i \in 1..Len(rec.calls) |->
                                  IF i <= Len(vals) THEN @[i] + 1 ELSE @[i]],
                              !._row = PyTuple(vals),
                              !._decoded = TRUE,
                              !._converters = <<>>],
          exc |-> PyNone]

\* Record._decode, the outcome: the first converter that raises leaves the
\* record as it was; otherwise the row becomes the tuple of values.
Record_decode_store(rec, vals, stop) ==
    IF stop <= Len(vals)
    THEN [rec |-> [rec EXCEPT !.calls = [i \in 1..Len(rec.calls) |->
                                  IF i <= stop THEN @[i] + 1 ELSE @[i]]],
          exc |-> vals[stop]]
    ELSE [rec |-> [rec EXCEPT !.calls = [i \in 1..Len(rec.calls) |->
                                  IF i <= Len(vals) THEN @[i] + 1 ELSE @[i]],
                              !._row = PyTuple(vals),
                              !._decoded = TRUE],
          exc |-> PyNone]

\* The position of the first converter call that raised, or one past the end.
FirstRaisedAt(vals) ==
    IF AnyRaised(vals)
    THEN CHOOSE i \in 1..Len(vals) :
             /\ IsRaised(vals[i])
             /\ \A j \in 1..(i - 1) : ~IsRaised(vals[j])
    ELSE Len(vals) + 1

Record_decode_run(rec, vals) == Record_decode_store(rec, vals, FirstRaisedAt(vals))

\* Record._decode: nothing to do once decoded.  The result is the record and
\* the exception raised, if any.
Record_decode(rec) ==
    IF rec._decoded THEN [rec |-> rec, exc |-> PyNone]
    ELSE Record_decode_run(rec, Record_decode_zip(rec, Split(rec._row.v, "\t")))

\* self._row[key] for an integer key.
RowIndex(row, key) ==
    IF -Len(row.v) <= key /\ key < Len(row.v)
    THEN (IF row.t = "bytes" THEN Bytes(<<row.v[(key % Len(row.v)) + 1]>>)
          ELSE row.v[(key % Len(row.v)) + 1])
    ELSE Raised("IndexError")

\* Record._getitem: a name goes through the dict of names; its KeyError and
\* the IndexError of an integer key are raised again with a message.
Record_getitem_inner(rec, key) ==
    IF key.t = "str"
    THEN LET idx == DictGet(rec._names, key.v)
         IN  IF IsRaised(idx) THEN Raised("KeyError")
             ELSE RowIndex(rec._row, idx.v)
    ELSE IF key.t = "slice" THEN rec._row
    ELSE RowIndex(rec._row, key.v)

\* Record.__getitem__ after _decode returned d.
Record_getitem_decoded(d, key) ==
    IF IsRaised(d.exc)
    THEN [rec |-> [d.rec EXCEPT !.accessed = @ + 1], res |-> d.exc,
          in_decode |-> TRUE]
    ELSE [rec |-> [d.rec EXCEPT !.accessed = @ + 1],
          res |-> Record_getitem_inner(d.rec, key), in_decode |-> FALSE]

\* Record.__getitem__: _decode, then _getitem.
Record_getitem(rec, key) == Record_getitem_decoded(Record_decode(rec), key)

\* Record.__len__
Record_len(rec) == Len(rec._names.keys)

\* Record.__iter__
Record_iter(rec) == rec._names.keys

\* RecordsFabric.new hands self.names and self.converters to every Record
\* by reference: the dict and the list a non-empty Record holds are the
\* objects of its RecordsFabric.  What the Record rec of result set f has
\* done to them is what the fabric and every other Record of f holds.
AliasedFabrics(fabrics, f, rec) ==
    IF rec.shared
    THEN [fabrics EXCEPT ![f] = [@ EXCEPT !.names = rec._names,
                                          !.converters = rec._converters]]
    ELSE fabrics

AliasedRecords(records, i, rec) ==
    [j \in 1..Len(records) |->
        IF j = i THEN [records[j] EXCEPT !.rec = rec]
        ELSE IF rec.shared /\ records[j].rec.shared /\ records[j].set = records[i].set
        THEN [records[j] EXCEPT !.rec._names = rec._names,
                                !.rec._converters = rec._converters]
        ELSE records[j]]

\* bool(record): Mapping defines no __bool__, so the truth value is that of
\* __len__.
Record_bool(rec) == Record_len(rec) # 0

(***************************************************************************)
(* ChClient: query parameters, str.format, _parse_squery and the request   *)
(* that _execute builds.  A query is a sequence of segments: a word, a     *)
(* replacement field {name}, or the text substituted for a field.  A dict  *)
(* is the sequence of its items.                                           *)
(***************************************************************************)
Word(w) == [t |-> "word", v |-> w]
Field(name) == [t |-> "field", v |-> name]
Literal(text) == [t |-> "text", v |-> text]

HasKey(items, key) == \E i \in 1..Len(items) : items[i][1] = key

ItemOf(items, key) == items[CHOOSE i \in 1..Len(items) : items[i][1] = key][2]

\* py2ch(value).decode('utf-8') of one item of the params dict
PreparedItem(key, encoded) ==
    IF IsRaised(encoded) THEN encoded
    ELSE [t |-> "item", key |-> key, value |-> PyStr(encoded.v)]

PreparedItems(items) ==
    [i \in 1..Len(items) |-> PreparedItem(items[i][1], py2ch(items[i][2]))]

PreparedDict(prepared) ==
    IF AnyRaised(prepared) THEN FirstRaised(prepared)
    ELSE PyDict([i \in 1..Len(prepared) |-> <<prepared[i].key, prepared[i].value>>])

\* ChClient._prepare_query_params
prepare_query_params(params) ==
    IF params = PyNone THEN PyDict(<<>>)
    ELSE IF params.t # "dict" THEN Raised("TypeError")
    ELSE PreparedDict(PreparedItems(params.v))

\* One segment of query.format(**query_params): a replacement field takes
\* the text stored under its name; a name that is no key raises KeyError.
FormatSegment(seg, items) ==
    IF seg.t # "field" THEN seg
    ELSE IF HasKey(items, PyStr(seg.v)) THEN Literal(ItemOf(items, PyStr(seg.v)).v)
    ELSE Raised("KeyError")

FormattedQuery(segs) == IF AnyRaised(segs) THEN FirstRaised(segs) ELSE PyStr(segs)

\* query.format(**query_params)
str_format(query, items) ==
    FormattedQuery([i \in 1..Len(query) |-> FormatSegment(query[i], items)])

\* Keywords are matched on their upper-case form.
Upper(w) ==
    CASE w = "select" -> "SELECT"
      [] w = "insert" -> "INSERT"
      [] w = "format" -> "FORMAT"
      [] OTHER -> w

StatementKeywords ==
    {"SELECT", "INSERT", "CREATE", "DROP", "ALTER", "SHOW", "DESCRIBE", "EXISTS"}

IsKeyword(seg, kw) == seg.t = "word" /\ Upper(seg.v) = kw

\* statement.get_type(): the statement keyword the query starts with.
get_type(query) ==
    IF query[1].t = "word" /\ Upper(query[1].v) \in StatementKeywords
    THEN Upper(query[1].v)
    ELSE "UNKNOWN"

\* The position of the first FORMAT keyword, 0 when there is none.
FormatAt(query) ==
    IF \E i \in 1..Len(query) : IsKeyword(query[i], "FORMAT")
    THEN CHOOSE i \in 1..Len(query) :
             /\ IsKeyword(query[i], "FORMAT")
             /\ \A j \in 1..(i - 1) : ~IsKeyword(query[j], "FORMAT")
    ELSE 0

\* is_json: a JSONEachRow token after the FORMAT keyword.
IsJsonAfter(query, fmt) ==
    /\ fmt # 0
    /\ \E i \in (fmt + 1)..Len(query) : query[i] = Word("JSONEachRow")

\* ChClient._parse_squery; sqlparse.parse(query)[0] of an empty text raises.
parse_squery(query) ==
    IF query = <<>> THEN Raised("IndexError")
    ELSE [t |-> "parsed",
          need_fetch |-> get_type(query) \in {"SELECT", "SHOW", "DESCRIBE", "EXISTS"},
          is_json |-> IsJsonAfter(query, FormatAt(query)),
          statement_type |-> get_type(query)]

\* TupleType.unconvert of every row, whatever the type of the row
RowsEncoded(rows) ==
    [i \in 1..Len(rows) |-> Composite_unconvert("(", py2ch_each(rows[i].v), ")")]

JoinedRows(parts) ==
    IF AnyRaised(parts) THEN FirstRaised(parts)
    ELSE Bytes(Join(<<",">>, BytesOf(parts)))

\* rows2ch(*rows)
rows2ch(rows) == JoinedRows(RowsEncoded(rows))

\* json2ch(*records, dumps): the JSON text of the records without its
\* outer brackets, kept as the records it was made from.
json2ch(records) == [t |-> "json", v |-> records]

\* self.params of a client built with the default database
self_params == <<(<<"database", "default">>)>>

\* params[key] = value on a dict
DictSet(items, key, value) ==
    IF HasKey(items, key)
    THEN [i \in 1..Len(items) |->
             IF items[i][1] = key THEN <<key, value>> ELSE items[i]]
    ELSE Append(items, <<key, value>>)

\* _execute, lines 146-151: the FORMAT directives appended to the query
AppendJson(query, is_json, json) ==
    IF ~is_json /\ json
    THEN query \o <<Word("FORMAT"), Word("JSONEachRow")>> ELSE query

AppendTsv(query, is_json, need_fetch) ==
    IF ~is_json /\ need_fetch
    THEN query \o <<Word("FORMAT"), Word("TSVWithNamesAndTypes")>> ELSE query

\* _execute, lines 168-169
WithQueryId(params, query_id) ==
    IF query_id # PyNone THEN DictSet(params, "query_id", query_id) ELSE params

Request(params, data, query_id, query, parsed, is_json) ==
    IF IsRaised(data) THEN data
    ELSE [t |-> "request", params |-> WithQueryId(params, query_id),
          data |-> data, query |-> query, need_fetch |-> parsed.need_fetch,
          is_json |-> is_json, statement_type |-> parsed.statement_type]

\* A _execute that sends whatever arguments it is given.
execute_args_unchecked(args, query_id, query, parsed, is_json) ==
    IF args # <<>>
    THEN Request(DictSet(self_params, "query", query),
                 IF is_json THEN json2ch(args) ELSE rows2ch(args),
                 query_id, query, parsed, is_json)
    ELSE Request(self_params, Bytes(query), query_id, query, parsed, is_json)

\* _execute, lines 153-169: arguments are for INSERT only; with arguments
\* the query travels in the params and the rows in the body, without them
\* the query is the body.
execute_args(args, query_id, query, parsed, is_json) ==
    IF args # <<>>
    THEN (IF parsed.statement_type # "INSERT" THEN Raised("ChClientError")
          ELSE Request(DictSet(self_params, "query", query),
                       IF is_json THEN json2ch(args) ELSE rows2ch(args),
                       query_id, query, parsed, is_json))
    ELSE Request(self_params, Bytes(query), query_id, query, parsed, is_json)

\* A _execute that adds the query and the query_id to the dict it is given,
\* as "params = self.params" would, where the code copies.
execute_params_aliased(stored, args, query, query_id) ==
    [params |-> WithQueryId(IF args # <<>> THEN DictSet(stored, "query", query)
                            ELSE stored, query_id),
     stored |-> WithQueryId(IF args # <<>> THEN DictSet(stored, "query", query)
                            ELSE stored, query_id)]

\* _execute, lines 158 and 165-169: params is a new dict made of the items
\* of self.params, then the query and the query_id of the call; self.params
\* is read, never written.
execute_params(stored, args, query, query_id) ==
    [params |-> WithQueryId(IF args # <<>> THEN DictSet(stored, "query", query)
                            ELSE stored, query_id),
     stored |-> stored]

\* _execute, lines 146-151, then the rest
execute_formats(args, json, query_id, query, parsed) ==
    execute_args(args, query_id,
                 AppendTsv(AppendJson(query, parsed.is_json, json),
                           parsed.is_json \/ json, parsed.need_fetch),
                 parsed, parsed.is_json \/ json)

execute_parsed(args, json, query_id, query, parsed) ==
    IF IsRaised(parsed) THEN parsed
    ELSE execute_formats(args, json, query_id, query, parsed)

execute_formatted(args, json, query_id, query) ==
    IF IsRaised(query) THEN query
    ELSE execute_parsed(args, json, query_id, query.v, parse_squery(query.v))

\* _execute, lines 143-169: from the prepared params to the request
execute_request(query, args, json, query_id, prepared) ==
    execute_formatted(args, json, query_id, str_format(query, prepared))

(***************************************************************************)
(* The HTTP clients (aiohttp and httpx variants run the same steps).  A    *)
(* response is its status and the chunks its body arrives in.              *)
(***************************************************************************)
HTTP_OK == 200

line_separator == "\n"

\* A byte that is not valid UTF-8, and what decoding puts in its place.
BadByte == "<ff>"
ReplacementChar == "<U+FFFD>"

\* bytes.decode(errors='replace')
decode_replace(bytes) ==
    [i \in 1..Len(bytes) |->
        IF bytes[i] = BadByte THEN ReplacementChar ELSE bytes[i]]

\* _read_error_body: the whole body, decoded
read_error_body(response) == decode_replace(Concat(response.chunks))

\* A check that lets every status through.
check_response_any_status(response) == PyNone

\* _check_response
check_response(response) ==
    IF response.status # HTTP_OK
    THEN RaisedWith("ChClientError", read_error_body(response))
    ELSE PyNone

\* The parameters each method declares after self.
Signature(method) ==
    IF method = "get" THEN {"url", "params", "headers"}
    ELSE {"url", "params", "headers", "data"}

\* Binding the keyword arguments of a call to the parameters of the method:
\* a parameter without an argument, or an argument without a parameter,
\* raises TypeError before the body runs.
Bind(method, kwargs) ==
    IF kwargs = Signature(method) THEN PyNone ELSE Raised("TypeError")

\* get and post_no_return: the request, then _check_response
http_no_return(method, kwargs, response) ==
    IF IsRaised(Bind(method, kwargs)) THEN Bind(method, kwargs)
    ELSE check_response(response)

\* ChClient.is_alive: the probe GET is called with url and params; only
\* ChClientError is caught.  A probe that finds no server ends in the
\* connection error of the session.
is_alive_get(kwargs, response) ==
    IF IsRaised(Bind("get", kwargs)) THEN Bind("get", kwargs)
    ELSE IF ~response.connected THEN Raised("ClientConnectionError")
    ELSE check_response(response)

is_alive_except(r) ==
    IF IsRaised(r) /\ r.v = "ChClientError" THEN PyBool(FALSE)
    ELSE IF IsRaised(r) THEN r
    ELSE PyBool(TRUE)

is_alive(response) == is_alive_except(is_alive_get({"url", "params"}, response))

\* post_return_lines, one chunk: the chunk is cut at the separators, the
\* buffer goes in front of the first piece, every piece but the last is
\* yielded with its separator and the last one becomes the buffer.
\* A loop that does not put the buffer in front of the first piece.
ChunkPieces_no_buffer(buffer, pieces) == pieces

ChunkPieces(buffer, pieces) ==
    [i \in 1..Len(pieces) |-> IF i = 1 THEN buffer \o pieces[i] ELSE pieces[i]]

YieldedOf(pieces) ==
    [i \in 1..(Len(pieces) - 1) |-> Append(pieces[i], line_separator)]

post_return_lines_chunk(h, pieces) ==
    [h EXCEPT !.yielded = @ \o YieldedOf(pieces),
              !.buffer = pieces[Len(pieces)],
              !.next = @ + 1]

(***************************************************************************)
(* BaseClient._execute of myscaledb, the branch of a CSV-file insert: the  *)
(* file is read in batches and every batch is posted until it is sent.     *)
(***************************************************************************)
RetryLimit == 3
EPIPE == 32
stream_batch_size == 1000000

\* What a POST of post_no_return ends with: its return, or an exception.
ClientOSError(errno) == [t |-> "exception", v |-> "ClientOSError", errno |-> errno]

NoCsv ==
    [pc |-> "idle", query |-> <<>>, args |-> <<>>, json |-> FALSE,
     data |-> PyNone, branch |-> "none",
     csvfile |-> <<>>, read |-> 0, closed |-> FALSE,
     rows |-> <<>>, sent |-> FALSE, retry |-> 0, rows_read |-> 0,
     exc |-> PyNone, posts |-> <<>>]

\* is_csv: a CSV token after the FORMAT keyword.
IsCsvAfter(query, fmt) ==
    /\ fmt # 0
    /\ \E i \in (fmt + 1)..Len(query) : query[i] = Word("CSV")

\* BaseClient._parse_squery
csv_parse_squery(query) ==
    [t |-> "parsed",
     need_fetch |-> get_type(query) \in {"SELECT", "SHOW", "DESCRIBE", "EXISTS"},
     is_json |-> IsJsonAfter(query, FormatAt(query)),
     is_csv |-> IsCsvAfter(query, FormatAt(query)),
     statement_type |-> get_type(query)]

\* Lines 159-171: the body made of the positional arguments.  The file
\* named by args[0] is read later; list2ch and rows2ch are kept as the
\* arguments they encode.
csv_data(args, is_json, is_csv) ==
    IF is_json THEN json2ch(args)
    ELSE IF is_csv
    THEN (IF Len(args) > 1 THEN Raised("ClientError") ELSE PyList(<<>>))
    ELSE [t |-> "rows", v |-> args]

\* Lines 153-174: arguments are for INSERT only; without them the query is
\* the body.
csv_args(args, query, parsed, is_json) ==
    IF args # <<>>
    THEN (IF parsed.statement_type # "INSERT" THEN Raised("ClientError")
          ELSE csv_data(args, is_json, parsed.is_csv))
    ELSE Bytes(query)

\* Lines 179, 206, 223: the branch that sends the request
csv_branch(parsed) ==
    IF parsed.is_csv THEN "csv"
    ELSE IF parsed.need_fetch THEN "post_return_lines"
    ELSE "post_no_return"

csv_dispatch(c, query, parsed, data) ==
    IF IsRaised(data) THEN [c EXCEPT !.pc = "raised", !.exc = data]
    ELSE [c EXCEPT !.query = query, !.data = data, !.branch = csv_branch(parsed),
                   !.pc = IF parsed.is_csv THEN "start" ELSE "single"]

csv_formats(c, parsed) ==
    AppendTsv(AppendJson(c.query, parsed.is_json, c.json),
              parsed.is_json \/ c.json, parsed.need_fetch)

\* BaseClient._execute, lines 140-178, called without query_params: parse,
\* FORMAT directives, the check of the arguments, the body, and the choice
\* of the branch.
csv_execute(c) ==
    csv_dispatch(c, csv_formats(c, csv_parse_squery(c.query)),
                 csv_parse_squery(c.query),
                 csv_args(c.args, csv_formats(c, csv_parse_squery(c.query)),
                          csv_parse_squery(c.query),
                          csv_parse_squery(c.query).is_json \/ c.json))

\* "".join(csvfile.readlines(max_batch_size)): the next batch of the file,
\* empty at its end.
csv_readlines(c) ==
    IF c.read < Len(c.csvfile) THEN c.csvfile[c.read + 1] ELSE <<>>

\* Lines 187-191: the test of "while not sent" with sent false, up to the
\* POST or to sys.exit(1).
csv_while_not_sent(c) ==
    IF c.retry >= RetryLimit
    THEN [c EXCEPT !.pc = "exited", !.exc = RaisedWith("SystemExit", 1)]
    ELSE [c EXCEPT !.pc = "post"]

\* Lines 181-186: one turn of "while True" up to the inner loop.
csv_read(c, rows) ==
    IF Len(rows) = 0
    THEN [c EXCEPT !.rows = rows, !.closed = TRUE, !.pc = "done"]
    ELSE csv_while_not_sent([c EXCEPT !.rows = rows, !.read = @ + 1,
                                      !.rows_read = @ + stream_batch_size])

\* A loop that carries the count of failures over to the next batch.
csv_reset_keeps_retry(c) == [c EXCEPT !.sent = FALSE]

\* Lines 203-204, after the inner loop
csv_reset(c) == [c EXCEPT !.retry = 0, !.sent = FALSE]

\* Lines 192-204: what follows the POST, up to the next POST or to the end.
csv_sent(c) == csv_read(c, csv_readlines(c))

\* A loop that retries after every operating system error, whatever its
\* errno.
csv_after_post_retry_any(c, outcome) ==
    IF ~IsRaised(outcome)
    THEN csv_sent(csv_reset([c EXCEPT !.sent = TRUE]))
    ELSE IF outcome.v = "ClientOSError"
    THEN csv_while_not_sent([c EXCEPT !.retry = @ + 1])
    ELSE [c EXCEPT !.pc = "raised", !.exc = outcome]

csv_after_post(c, outcome) ==
    IF ~IsRaised(outcome)
    THEN csv_sent(csv_reset([c EXCEPT !.sent = TRUE]))
    ELSE IF outcome.v = "ClientOSError" /\ outcome.errno = EPIPE
    THEN csv_while_not_sent([c EXCEPT !.retry = @ + 1])
    ELSE [c EXCEPT !.pc = "raised", !.exc = outcome]

\* Lines 180-191: the locals, open(args[0]) and the first batch.  args[0]
\* of an empty tuple raises IndexError.
csv_opened(c) ==
    [c EXCEPT !.csvfile = c.args[1].lines, !.sent = FALSE, !.rows_read = 0,
              !.retry = 0]

csv_open(c) ==
    IF c.args = <<>> THEN [c EXCEPT !.pc = "raised", !.exc = Raised("IndexError")]
    ELSE csv_read(csv_opened(c), csv_readlines(csv_opened(c)))

\* Lines 206-226: the one POST of the other branches; its exception
\* propagates.
csv_single_post(c, outcome) ==
    IF IsRaised(outcome) THEN [c EXCEPT !.pc = "raised", !.exc = outcome]
    ELSE [c EXCEPT !.pc = "done"]

(***************************************************************************)
(* Inputs of the tokenizer runs                                            *)
(***************************************************************************)
SeqAlphabet == {"a", CM, DQ, ESCAPE_OP, ARR_OP, ARR_CLS, TUP_OP, TUP_CLS}

RawABC == <<"a", ",", "b", ",", "c">>
RawTwoTuples == <<"(", "1", ",", "2", ")", ",", "(", "3", ",", "4", ")">>
RawQuotedComma == <<"'", "a", ",", "b", "'">>
RawNestedArrays ==
    <<"[", "[", "1", "]", ",", "[", "2", "]", "]", ",", "[", "[", "3", "]", "]">>
RawQuotedBracket == <<"[", "'", "]", "'", "]", ",", "3">>

SeqSamples ==
    {RawABC, RawTwoTuples, RawQuotedComma, RawNestedArrays, RawQuotedBracket}

SeqInputs == SeqsUpTo(SeqAlphabet, MaxRawLen) \cup SeqSamples

IdleSeqParser ==
    /\ sp_raw = <<>>
    /\ sp_pos = 0
    /\ sp_st = SeqStart
    /\ sp_done = TRUE

(***************************************************************************)
(* Inputs of the conversion runs                                           *)
(***************************************************************************)
TBool == <<"Bool">>
TUInt8 == <<"UInt8">>
TInt8 == <<"Int8">>
TString == <<"String">>
TArray(tp) == <<"Array", "(">> \o tp \o <<")">>
TNullable(tp) == <<"Nullable", "(">> \o tp \o <<")">>
TTuple2(a, b) == <<"Tuple", "(">> \o a \o <<",">> \o b \o <<")">>
TMap(k, v) == <<"Map", "(">> \o k \o <<",">> \o v \o <<")">>

StrAlphabet == {"a", "'", "\\"}
Strings == SeqsUpTo(StrAlphabet, MaxStrLen)

\* Native values paired with the wire type they are stored as.
RoundTripCases ==
    {<<TBool, PyBool(b)>> : b \in BOOLEAN}
    \cup {<<TInt8, PyInt(n)>> : n \in {-12, -1, 0, 7, 12}}
    \cup {<<TString, PyStr(s)>> : s \in Strings}
    \cup {<<TArray(TUInt8), PyList(xs)>> :
            xs \in {<<>>, <<PyInt(1)>>, <<PyInt(1), PyInt(2)>>}}
    \cup {<<TArray(TString), PyList(<<PyStr(s)>>)>> : s \in Strings}
    \cup {<<TArray(TArray(TArray(TUInt8))),
            PyList(<<PyList(<<PyList(<<PyInt(1)>>), PyList(<<PyInt(2)>>)>>),
                     PyList(<<PyList(<<PyInt(3)>>)>>)>>)>>}
    \cup {<<TTuple2(TUInt8, TString), PyTuple(<<PyInt(4), PyStr(s)>>)>> :
            s \in Strings}
    \cup {<<TTuple2(TTuple2(TUInt8, TUInt8), TUInt8),
            PyTuple(<<PyTuple(<<PyInt(1), PyInt(2)>>), PyInt(3)>>)>>}
    \cup {<<TMap(TString, TString), PyDict(items)>> :
            items \in {<<>>,
                       <<(<<PyStr(<<"a">>), PyStr(<<"b">>)>>)>>,
                       <<(<<PyStr(<<"a">>), PyStr(<<"b">>)>>),
                         (<<PyStr(<<"c">>), PyStr(<<"d">>)>>)>>}}
    \cup {<<TNullable(TUInt8), v>> : v \in {PyNone, PyInt(1)}}

WireTupleMap ==
    <<"(", "4", ",", "{", "'", "a", "'", ":", "'", "b", "'", "}", ")">>
WireTupleStr == <<"(", "4", ",", "'", "a", "'", ")">>
WireMapAB == <<"{", "'", "a", "'", ":", "'", "b", "'", "}">>

\* The names of top-level text columns and wire fields for them: a plain
\* byte, an escaped newline, an escaped backslash, and an escaped backslash
\* followed by a letter of the escape table.
TopLevelStrNames ==
    {TString, <<"FixedString", "(", "3", ")">>,
     <<"Enum8", "(", "'", "a", "'", " ", "=", " ", "1", ")">>}
TopLevelStrWires ==
    {<<"a">>, <<"\\", "n">>, <<"\\", "\\">>, <<"\\", "\\", "n">>,
     <<"\\", "\\", "a">>}

\* Map(String,String) wire literals with no, one and two top-level pairs,
\* each with the mapping it denotes.
WireMapEmpty == <<"{", "}">>
WireMapABCD ==
    <<"{", "'", "a", "'", ":", "'", "b", "'", ",",
           "'", "c", "'", ":", "'", "d", "'", "}">>
MapLiterals ==
    {<<WireMapEmpty, PyDict(<<>>)>>,
     <<WireMapAB, PyDict(<<(<<PyStr(<<"a">>), PyStr(<<"b">>)>>)>>)>>,
     <<WireMapABCD, PyDict(<<(<<PyStr(<<"a">>), PyStr(<<"b">>)>>),
                             (<<PyStr(<<"c">>), PyStr(<<"d">>)>>)>>)>>}

\* Aggregate type names, each with the name of the type it stores and a wire
\* value of that type: plain inner types, parameterised inner types, and an
\* aggregate function that has parameters of its own.
TAggregate(family, f, tp) == <<family, "(">> \o f \o <<",", " ">> \o tp \o <<")">>
TDecimal63 == <<"Decimal", "(", "6", ",", " ", "3", ")">>
Quantiles == <<"quantiles", "(", "0.5", ",", " ", "0.9", ")">>
AggregateCases ==
    {<<TAggregate(family, <<"sum">>, TUInt8), TUInt8, <<"4">>>> :
        family \in {"AggregateFunction", "SimpleAggregateFunction"}}
    \cup {<<TAggregate(family, <<"any">>, TString), TString, w>> :
            family \in {"AggregateFunction", "SimpleAggregateFunction"},
            w \in {<<"a">>, <<"\\", "n">>}}
    \cup {<<TAggregate(family, <<"sum">>, TArray(TUInt8)), TArray(TUInt8),
            <<"[", "1", ",", "2", "]">>>> :
            family \in {"AggregateFunction", "SimpleAggregateFunction"}}
    \cup {<<TAggregate("SimpleAggregateFunction", <<"any">>, TNullable(TUInt8)),
            TNullable(TUInt8), <<"\\", "N">>>>,
          <<TAggregate("SimpleAggregateFunction", <<"sum">>, TDecimal63),
            TDecimal63, <<"1">>>>,
          <<TAggregate("AggregateFunction", Quantiles, TUInt8), TUInt8, <<"4">>>>}

\* Wire type names paired with a wire value of that type.
DecodeCases ==
    {<<TTuple2(TUInt8, TMap(TString, TString)), WireTupleMap>>,
     <<TTuple2(TUInt8, TString), WireTupleStr>>,
     <<TMap(TString, TString), WireMapAB>>,
     <<TUInt8, <<"4">>>>}
    \cup {<<tp, w>> : tp \in TopLevelStrNames, w \in TopLevelStrWires}
    \cup {<<TMap(TString, TString), m[1]>> : m \in MapLiterals}
    \cup {<<c[1], c[3]>> : c \in AggregateCases}

Bogus == <<"Bogus42">>

\* Type names that resolve to no descriptor: an unknown family, alone or
\* inside a composite, and composite families without well-formed
\* parameters.
UnknownFamilyNames ==
    {Bogus, <<>>, TArray(Bogus), TNullable(Bogus), TTuple2(TUInt8, Bogus),
     TMap(TString, Bogus), TArray(TArray(Bogus))}

MalformedNames ==
    {<<"Tuple">>, <<"Array">>, <<"Map">>, <<"Nullable">>, <<"LowCardinality">>,
     <<"Array", "(">>, <<"Map", "(", "String", ")">>,
     <<"Nested", "(", "a", ")">>, <<"AggregateFunction", "(", "sum", ")">>}

UnresolvableNames == UnknownFamilyNames \cup MalformedNames

\* Wire texts for decode: every text over a backslash, two bytes of the
\* table and one byte outside it, and one escape pair for every byte of the
\* table between two plain bytes.
EscapeAlphabet == {"\\", "n", "N", "x"}
EscapeTexts ==
    SeqsUpTo(EscapeAlphabet, MaxEscLen)
    \cup {<<"a", "\\", c, "a">> : c \in ESC_CHR}

\* Strings with tab, backslash, single quote and newline, alone, as the
\* element of an array and as the second element of a tuple.
NestedAlphabet == {"a", "\t", "\\", "'", "\n"}
NestedStrings == SeqsUpTo(NestedAlphabet, MaxStrLen)
NestedCases ==
    {<<TString, PyStr(s)>> : s \in NestedStrings}
    \cup {<<TArray(TString), PyList(<<PyStr(s)>>)>> : s \in NestedStrings}
    \cup {<<TArray(TString), PyList(<<PyStr(s), PyStr(<<"a">>)>>)>> :
            s \in NestedStrings}
    \cup {<<TTuple2(TUInt8, TString), PyTuple(<<PyInt(4), PyStr(s)>>)>> :
            s \in NestedStrings}

IdleConversion ==
    /\ cv_type = <<>>
    /\ cv_val = PyNone
    /\ cv_wire = Bytes(<<>>)
    /\ cv_desc = PyNone
    /\ cv_out = PyNone
    /\ cv_pc = "idle"

(***************************************************************************)
(* Inputs of the result set runs                                           *)
(***************************************************************************)
ColumnNames == <<"a", "b", "c", "d", "e">>
ColumnTypes == {TUInt8, TString}
FieldTexts == {<<"1">>, <<"x">>}

\* A header or data line: the fields joined by tabs, then the delimiter.
Line(fields) == Join(<<"\t">>, fields) \o <<"\n">>

NamesLines == {Line([i \in 1..k |-> <<ColumnNames[i]>>]) : k \in 1..MaxCols}
TypesLines ==
    {Line(tps) : tps \in UNION {[1..k -> ColumnTypes] : k \in 1..MaxCols}}
    \cup {Line(<<TUInt8, <<"Bogus42">>>>)}
DataLines == {Line(fields) : fields \in SeqsUpTo(FieldTexts, MaxCols)}

\* Two result sets read side by side: their header lines, the data lines
\* that arrive and the keys their Records are read with.
HeadersAB == <<Line(<<(<<"a">>), (<<"b">>)>>), Line(<<TUInt8, TString>>)>>
HeadersA == <<Line(<<(<<"a">>)>>), Line(<<TString>>)>>
SetHeaders == {<<HeadersAB, HeadersA>>, <<HeadersAB, HeadersAB>>}
SetLines == {Line(<<(<<"1">>), (<<"x">>)>>), Line(<<>>)}
SetKeys == {[t |-> "str", v |-> <<"a">>]}

\* The number of times each Record of the two result sets is read.
MaxSetAccess == 1

NoKey == [t |-> "NoneType", v |-> 0]
FullSlice == [t |-> "slice", v |-> 0]
Keys ==
    {PyInt(0), PyInt(MaxCols - 1), PyInt(-1), PyStr(<<"a">>),
     PyStr(<<ColumnNames[MaxCols]>>), PyStr(<<"zz">>), FullSlice}

NoResult == [op |-> "none", key |-> NoKey, val |-> PyNone, in_decode |-> FALSE]

IdleResultSet ==
    /\ rf_names = <<>>
    /\ rf_tps = <<>>
    /\ rf_convert = TRUE
    /\ fabric = PyNone
    /\ record = PyNone
    /\ record_res = NoResult

(***************************************************************************)
(* Inputs of the client runs and of the HTTP client runs                   *)
(***************************************************************************)
ParamStrings == SeqsUpTo(StrAlphabet, MaxParamLen)

ParamName == <<"p">>

SelectOne == <<Word("SELECT"), Word("1")>>
SelectParam == <<Word("SELECT"), Field(ParamName)>>
SelectJson == <<Word("select"), Word("1"), Word("format"), Word("JSONEachRow")>>
SelectCsv == <<Word("SELECT"), Word("1"), Word("FORMAT"), Word("CSV")>>
InsertValues == <<Word("INSERT"), Word("INTO"), Word("t"), Word("VALUES")>>
InsertJson ==
    <<Word("INSERT"), Word("INTO"), Word("t"), Word("FORMAT"), Word("JSONEachRow")>>
InsertParam == <<Word("INSERT"), Word("INTO"), Word("t"), Word("VALUES"), Field(ParamName)>>
CreateTable == <<Word("CREATE"), Word("TABLE"), Word("t")>>
BadSelect == <<Word("SELE")>>

Queries ==
    {SelectOne, SelectParam, SelectJson, SelectCsv, InsertValues, InsertJson,
     InsertParam, CreateTable, BadSelect, <<>>}

ArgRow == <<PyTuple(<<PyInt(1), PyStr(<<"a">>)>>)>>
ArgRows == {<<>>, ArgRow}

QueryParams ==
    {PyNone, PyList(<<>>), PyDict(<<>>), PyDict(<<(<<PyStr(ParamName), PyInt(7)>>)>>)}
    \cup {PyDict(<<(<<PyStr(ParamName), PyStr(s)>>)>>) : s \in ParamStrings}

QueryIds == {PyNone, PyStr(<<"q">>)}

NoCall ==
    [pc |-> "idle", at |-> "none", query |-> <<>>, args |-> <<>>, json |-> FALSE,
     query_params |-> PyNone, query_id |-> PyNone, prepared |-> PyNone,
     request |-> PyNone, exc |-> PyNone, method |-> "_execute",
     result |-> PyNone]

Statuses == {HTTP_OK, 404, 500}

Bodies == SeqsUpTo({"a", line_separator, BadByte}, MaxBodyLen)

\* The ways a body arrives in exactly n chunks, empty chunks included.
RECURSIVE Cuts(_, _)
Cuts(body, n) ==
    IF n = 1 THEN {<<body>>}
    ELSE UNION {{<<SubSeq(body, 1, i)>> \o rest :
                    rest \in Cuts(SubSeq(body, i + 1, Len(body)), n - 1)} :
                i \in 0..Len(body)}

Chunkings == UNION {Cuts(body, n) : body \in Bodies, n \in 1..MaxChunks}

HttpMethods == {"get", "post_no_return", "post_return_lines"}

\* The methods of ChClient that return what _execute yields.
FetchMethods == {"iterate", "fetch", "fetchrow"}

\* Tab-format responses: the names line, the types line, then the data lines.
FetchRows == SeqsUpTo({Line(<<(<<"1">>)>>), Line(<<(<<"2">>)>>)}, MaxRows)
FetchResponses ==
    {<<Line(<<(<<"a">>)>>), Line(<<TUInt8>>)>> \o rows : rows \in FetchRows}

NoHttp ==
    [pc |-> "idle", method |-> "none", kwargs |-> {}, buffer |-> <<>>,
     next |-> 1, yielded |-> <<>>, exc |-> PyNone, open |-> FALSE]

NoResponse == [status |-> HTTP_OK, chunks |-> <<>>]

\* CSV files of up to MaxBatches batches, every batch one line of its own.
Batch(i) == <<"r", Digits[i + 1], "\n">>
CsvFiles == {[i \in 1..n |-> Batch(i)] : n \in 0..MaxBatches}

\* A POST returns, or fails with a broken pipe, with another operating
\* system error, or with the error of a bad status.
PostOutcomes ==
    {PyNone, ClientOSError(EPIPE), ClientOSError(104), Raised("ClientError")}

\* The queries of the insert runs and their positional arguments: none,
\* the path of one file, or two paths.
InsertCsv ==
    <<Word("INSERT"), Word("INTO"), Word("t"), Word("FORMAT"), Word("CSV")>>
CsvQueries == {InsertCsv, InsertValues, InsertJson, SelectCsv, SelectOne}
Path(file) == [t |-> "path", lines |-> file]
CsvArgs ==
    {<<>>} \cup {<<Path(file)>> : file \in CsvFiles}
           \cup {<<Path(<<Batch(1)>>), Path(<<>>)>>}

IdleCsvInsert == csv = NoCsv

IdleClient ==
    /\ call = NoCall
    /\ http_log = <<>>
    /\ client_params = self_params
    /\ resp = NoResponse
    /\ http = NoHttp

(***************************************************************************)
(* The conversion runs: py2ch, what_py_type, convert                       *)
(***************************************************************************)
InitRoundTrip ==
    /\ job = "roundtrip"
    /\ \E c \in RoundTripCases : cv_type = c[1] /\ cv_val = c[2]
    /\ cv_wire = Bytes(<<>>)
    /\ cv_desc = PyNone
    /\ cv_out = PyNone
    /\ cv_pc = "start"
    /\ IdleSeqParser
    /\ IdleResultSet
    /\ IdleClient
    /\ IdleCsvInsert

InitDecode ==
    /\ job = "decode"
    /\ \E c \in DecodeCases : cv_type = c[1] /\ cv_wire = Bytes(c[2])
    /\ cv_val = PyNone
    /\ cv_desc = PyNone
    /\ cv_out = PyNone
    /\ cv_pc = "encoded"
    /\ IdleSeqParser
    /\ IdleResultSet
    /\ IdleClient
    /\ IdleCsvInsert

InitResolve ==
    /\ job = "resolve"
    /\ cv_type \in UnresolvableNames
    /\ cv_wire = Bytes(<<>>)
    /\ cv_val = PyNone
    /\ cv_desc = PyNone
    /\ cv_out = PyNone
    /\ cv_pc = "encoded"
    /\ IdleSeqParser
    /\ IdleResultSet
    /\ IdleClient
    /\ IdleCsvInsert

InitNested ==
    /\ job = "nested"
    /\ \E c \in NestedCases : cv_type = c[1] /\ cv_val = c[2]
    /\ cv_wire = Bytes(<<>>)
    /\ cv_desc = PyNone
    /\ cv_out = PyNone
    /\ cv_pc = "start"
    /\ IdleSeqParser
    /\ IdleResultSet
    /\ IdleClient
    /\ IdleCsvInsert

InitEscape ==
    /\ job = "escape"
    /\ \E v \in EscapeTexts : cv_wire = Bytes(v)
    /\ cv_type = <<>>
    /\ cv_val = PyNone
    /\ cv_desc = PyNone
    /\ cv_out = PyNone
    /\ cv_pc = "wire"
    /\ IdleSeqParser
    /\ IdleResultSet
    /\ IdleClient
    /\ IdleCsvInsert

\* BaseType.decode(val)
Decode ==
    /\ job = "escape"
    /\ cv_pc = "wire"
    /\ cv_out' = PyStr(decode(cv_wire.v))
    /\ cv_pc' = "decoded"
    /\ UNCHANGED <<job, csv, clVars, spVars, rfVars, cv_type, cv_val, cv_wire, cv_desc>>

\* py2ch(value)
Py2ch ==
    /\ cv_pc = "start"
    /\ cv_wire' = py2ch(cv_val)
    /\ cv_pc' = IF IsRaised(cv_wire') THEN "raised" ELSE "encoded"
    /\ UNCHANGED <<job, csv, clVars, spVars, rfVars, cv_type, cv_val, cv_desc, cv_out>>

\* what_py_type(name)
WhatPyType ==
    /\ job # "nested"
    /\ cv_pc = "encoded"
    /\ cv_desc' = what_py_type(cv_type, FALSE)
    /\ cv_pc' = IF IsRaised(cv_desc') THEN "raised" ELSE "resolved"
    /\ UNCHANGED <<job, csv, clVars, spVars, rfVars, cv_type, cv_val, cv_wire, cv_out>>

\* descriptor.convert(wire)
Convert ==
    /\ job \in {"roundtrip", "decode"}
    /\ cv_pc = "resolved"
    /\ cv_out' = convert(cv_desc, cv_wire.v)
    /\ cv_pc' = IF IsRaised(cv_out') THEN "raised" ELSE "decoded"
    /\ UNCHANGED <<job, csv, clVars, spVars, rfVars, cv_type, cv_val, cv_wire, cv_desc>>

\* what_py_type(name, container=True)
WhatPyTypeContainer ==
    /\ job = "nested"
    /\ cv_pc = "encoded"
    /\ cv_desc' = what_py_type(cv_type, TRUE)
    /\ cv_pc' = IF IsRaised(cv_desc') THEN "raised" ELSE "resolved"
    /\ UNCHANGED <<job, csv, clVars, spVars, rfVars, cv_type, cv_val, cv_wire, cv_out>>

\* descriptor.p_type(wire.decode())
PType ==
    /\ job = "nested"
    /\ cv_pc = "resolved"
    /\ cv_out' = p_type(cv_desc, cv_wire.v)
    /\ cv_pc' = IF IsRaised(cv_out') THEN "raised" ELSE "decoded"
    /\ UNCHANGED <<job, csv, clVars, spVars, rfVars, cv_type, cv_val, cv_wire, cv_desc>>

(***************************************************************************)
(* The tokenizer run: seq_parser consumed symbol by symbol                 *)
(***************************************************************************)
InitSeqParser ==
    /\ job = "seq_parser"
    /\ sp_raw \in SeqInputs
    /\ sp_pos = 0
    /\ sp_st = SeqStart
    /\ sp_done = FALSE
    /\ IdleConversion
    /\ IdleResultSet
    /\ IdleClient
    /\ IdleCsvInsert

SeqParserEmpty ==
    /\ job = "seq_parser"
    /\ ~sp_done
    /\ sp_raw = <<>>
    /\ sp_done' = TRUE
    /\ UNCHANGED <<job, csv, clVars, sp_raw, sp_pos, sp_st, cvVars, rfVars>>

SeqParserSym ==
    /\ job = "seq_parser"
    /\ ~sp_done
    /\ sp_pos < Len(sp_raw)
    /\ sp_st' = seq_parser_sym(sp_st, sp_raw[sp_pos + 1])
    /\ sp_pos' = sp_pos + 1
    /\ UNCHANGED <<job, csv, clVars, sp_raw, sp_done, cvVars, rfVars>>

SeqParserEnd ==
    /\ job = "seq_parser"
    /\ ~sp_done
    /\ sp_raw # <<>>
    /\ sp_pos = Len(sp_raw)
    /\ sp_st' = seq_parser_end(sp_st)
    /\ sp_done' = TRUE
    /\ UNCHANGED <<job, csv, clVars, sp_raw, sp_pos, cvVars, rfVars>>

NextCodec ==
    \/ SeqParserEmpty
    \/ SeqParserSym
    \/ SeqParserEnd
    \/ Py2ch
    \/ WhatPyType
    \/ Convert
    \/ WhatPyTypeContainer
    \/ PType
    \/ Decode

InitCodec ==
    \/ InitSeqParser \/ InitRoundTrip \/ InitDecode \/ InitResolve
    \/ InitNested \/ InitEscape

SpecCodec == InitCodec /\ [][NextCodec]_vars

(***************************************************************************)
(* The result set run: one RecordsFabric, one Record after the other       *)
(***************************************************************************)
InitRecord ==
    /\ job = "record"
    /\ rf_names \in NamesLines
    /\ rf_tps \in TypesLines
    /\ rf_convert \in BOOLEAN
    /\ fabric = PyNone
    /\ record = PyNone
    /\ record_res = NoResult
    /\ IdleSeqParser
    /\ IdleConversion
    /\ IdleClient
    /\ IdleCsvInsert

\* RecordsFabric(names=..., tps=..., convert=...)
FabricInit ==
    /\ job = "record"
    /\ fabric = PyNone
    /\ fabric' = RecordsFabric_init(rf_tps, rf_names, rf_convert)
    /\ UNCHANGED <<job, csv, clVars, spVars, cvVars, rf_names, rf_tps, rf_convert, record, record_res>>

\* fabric.new(line) for the next data line of the response
FabricNew ==
    /\ job = "record"
    /\ fabric.t = "RecordsFabric"
    /\ \E line \in DataLines : record' = RecordsFabric_new(fabric, line)
    /\ record_res' = NoResult
    /\ UNCHANGED <<job, csv, clVars, spVars, cvVars, rf_names, rf_tps, rf_convert, fabric>>

\* record[key]
RecordGetItem ==
    /\ job = "record"
    /\ record # PyNone
    /\ record.accessed < MaxAccess
    /\ \E key \in Keys :
          \E r \in {Record_getitem(record, key)} :
              /\ record' = r.rec
              /\ record_res' = [op |-> "getitem", key |-> key, val |-> r.res,
                                in_decode |-> r.in_decode]
    /\ UNCHANGED <<job, csv, clVars, spVars, cvVars, rf_names, rf_tps, rf_convert, fabric>>

\* len(record)
RecordLen ==
    /\ job = "record"
    /\ record # PyNone
    /\ record_res' = [op |-> "len", key |-> NoKey, val |-> PyInt(Record_len(record)),
                   in_decode |-> FALSE]
    /\ UNCHANGED <<job, csv, clVars, spVars, cvVars, rf_names, rf_tps, rf_convert, fabric, record>>

\* list(record)
RecordIter ==
    /\ job = "record"
    /\ record # PyNone
    /\ record_res' = [op |-> "iter", key |-> NoKey, val |-> PyList(Record_iter(record)),
                   in_decode |-> FALSE]
    /\ UNCHANGED <<job, csv, clVars, spVars, cvVars, rf_names, rf_tps, rf_convert, fabric, record>>

\* bool(record)
RecordBool ==
    /\ job = "record"
    /\ record # PyNone
    /\ record_res' = [op |-> "bool", key |-> NoKey, val |-> PyBool(Record_bool(record)),
                   in_decode |-> FALSE]
    /\ UNCHANGED <<job, csv, clVars, spVars, cvVars, rf_names, rf_tps, rf_convert, fabric, record>>

(***************************************************************************)
(* Two result sets whose rows are decoded in any interleaving               *)
(***************************************************************************)
InitSets ==
    /\ job = "sets"
    /\ \E h \in SetHeaders :
          /\ rf_names = <<h[1][1], h[2][1]>>
          /\ rf_tps = <<h[1][2], h[2][2]>>
    /\ rf_convert = TRUE
    /\ fabric = <<PyNone, PyNone>>
    /\ record = <<>>
    /\ record_res = NoResult
    /\ IdleSeqParser
    /\ IdleConversion
    /\ IdleClient
    /\ IdleCsvInsert

\* RecordsFabric(names=..., tps=...) of one of the result sets
SetsFabricInit ==
    /\ job = "sets"
    /\ \E f \in 1..2 :
          /\ fabric[f] = PyNone
          /\ fabric' = [fabric EXCEPT ![f] = RecordsFabric_init(rf_tps[f], rf_names[f],
                                                                rf_convert)]
    /\ UNCHANGED <<job, csv, clVars, spVars, cvVars, rf_names, rf_tps, rf_convert, record, record_res>>

\* fabric.new(line) for the next data line of one of the result sets
SetsFabricNew ==
    /\ job = "sets"
    /\ Len(record) < MaxRecords
    /\ \E f \in 1..2, line \in SetLines :
          /\ fabric[f] # PyNone
          /\ record' = Append(record, [set |-> f,
                                       rec |-> RecordsFabric_new(fabric[f], line)])
    /\ UNCHANGED <<job, csv, clVars, spVars, cvVars, rf_names, rf_tps, rf_convert, fabric, record_res>>

\* record[key] on a Record of either result set
SetsGetItem ==
    /\ job = "sets"
    /\ \E i \in 1..Len(record), key \in SetKeys :
          /\ record[i].rec.accessed < MaxSetAccess
          /\ \E r \in {Record_getitem(record[i].rec, key)} :
                /\ record' = AliasedRecords(record, i, r.rec)
                /\ fabric' = AliasedFabrics(fabric, record[i].set, r.rec)
                /\ record_res' = [op |-> "getitem", key |-> key, val |-> r.res,
                                  in_decode |-> r.in_decode]
    /\ UNCHANGED <<job, csv, clVars, spVars, cvVars, rf_names, rf_tps, rf_convert>>

NextRecord ==
    \/ SetsFabricInit
    \/ SetsFabricNew
    \/ SetsGetItem
    \/ FabricInit
    \/ FabricNew
    \/ RecordGetItem
    \/ RecordLen
    \/ RecordIter
    \/ RecordBool

SpecRecord == (InitRecord \/ InitSets) /\ [][NextRecord]_vars

(***************************************************************************)
(* The client runs: one call of ChClient._execute, advanced by its         *)
(* consumer up to the request it sends                                     *)
(***************************************************************************)
InitClient ==
    /\ job = "client"
    /\ \E query \in Queries, args \in ArgRows, json \in BOOLEAN,
          query_params \in QueryParams, query_id \in QueryIds :
          call = [NoCall EXCEPT !.pc = "start", !.query = query, !.args = args,
                                !.json = json, !.query_params = query_params,
                                !.query_id = query_id]
    /\ http_log = <<>>
    /\ client_params = self_params
    /\ resp = NoResponse
    /\ http = NoHttp
    /\ IdleSeqParser
    /\ IdleConversion
    /\ IdleResultSet
    /\ IdleCsvInsert

\* iterate, fetch or fetchrow called with a SELECT, the server ready to answer
\* with a tab-format response.
InitFetch ==
    /\ job = "fetch"
    /\ \E method \in FetchMethods, query_id \in QueryIds :
          call = [NoCall EXCEPT !.pc = "start", !.method = method,
                                !.query = SelectOne, !.query_id = query_id]
    /\ \E lines \in FetchResponses :
          resp = [status |-> HTTP_OK, chunks |-> <<Concat(lines)>>]
    /\ http_log = <<>>
    /\ client_params = self_params
    /\ http = NoHttp
    /\ IdleSeqParser
    /\ IdleConversion
    /\ IdleResultSet
    /\ IdleCsvInsert

\* is_alive called, the server answering with any status or not at all.
InitIsAlive ==
    /\ job = "is_alive"
    /\ call = [NoCall EXCEPT !.pc = "start", !.method = "is_alive"]
    /\ \E status \in Statuses, body \in Bodies, connected \in BOOLEAN :
          resp = [status |-> status, chunks |-> <<body>>, connected |-> connected]
    /\ http_log = <<>>
    /\ client_params = self_params
    /\ http = NoHttp
    /\ IdleSeqParser
    /\ IdleConversion
    /\ IdleResultSet
    /\ IdleCsvInsert

\* await client.is_alive()
IsAlive ==
    /\ job = "is_alive"
    /\ call.pc = "start"
    /\ call' = [call EXCEPT !.pc = "done", !.result = is_alive(resp)]
    /\ http_log' = Append(http_log, [method |-> "get",
                                     params |-> DictSet(self_params, "query",
                                                        <<Word("SELECT"), Word("1")>>),
                                     data |-> PyNone])
    /\ UNCHANGED <<job, csv, spVars, cvVars, rfVars, client_params, resp, http>>

\* _execute, line 142: query_params = self._prepare_query_params(query_params)
PrepareQueryParams ==
    /\ job \in {"client", "fetch"}
    /\ call.pc = "start"
    /\ \E r \in {prepare_query_params(call.query_params)} :
          call' = IF IsRaised(r)
                  THEN [call EXCEPT !.pc = "raised", !.at = "params", !.exc = r]
                  ELSE [call EXCEPT !.pc = "prepared", !.prepared = r]
    /\ UNCHANGED <<job, csv, spVars, cvVars, rfVars, client_params, http_log, resp, http>>

\* _execute, lines 143-169: format, parse, FORMAT directives, the check of
\* the arguments, params and data of the request
BuildRequest ==
    /\ job \in {"client", "fetch"}
    /\ call.pc = "prepared"
    /\ \E r \in {execute_request(call.query, call.args, call.json,
                                 call.query_id, call.prepared.v)} :
          call' = IF IsRaised(r)
                  THEN [call EXCEPT !.pc = "raised", !.at = "request", !.exc = r]
                  ELSE [call EXCEPT !.pc = "built", !.request = r]
    /\ UNCHANGED <<job, csv, spVars, cvVars, rfVars, client_params, http_log, resp, http>>

\* The method _execute calls, lines 171-190
MethodOf(request) ==
    IF request.need_fetch THEN "post_return_lines" ELSE "post_no_return"

\* _execute, lines 171-190: the call on the HTTP client, made with url,
\* params and data
SendRequest ==
    /\ job \in {"client", "fetch"}
    /\ call.pc = "built"
    /\ http_log' = Append(http_log,
                          [method |-> MethodOf(call.request),
                           params |-> call.request.params,
                           data |-> call.request.data])
    /\ \E b \in {Bind(MethodOf(call.request), {"url", "params", "data"})} :
          IF IsRaised(b)
          THEN /\ call' = [call EXCEPT !.pc = "raised", !.at = "send", !.exc = b]
               /\ UNCHANGED http
          ELSE /\ call' = [call EXCEPT !.pc = "sent"]
               /\ http' = [NoHttp EXCEPT !.pc = "bound",
                                         !.method = MethodOf(call.request)]
    /\ UNCHANGED <<job, csv, spVars, cvVars, rfVars, client_params, resp>>

\* Two calls of execute on one client, gathered: each is an INSERT with
\* rows or a query without arguments, with or without a query_id of its own.
ParallelQueryIds == <<{PyNone, PyStr(<<"q1">>)}, {PyNone, PyStr(<<"q2">>)}>>
ParallelQueries == {<<InsertValues, ArgRow>>, <<CreateTable, <<>>>>, <<SelectOne, <<>>>>}

InitParallel ==
    /\ job = "parallel"
    /\ \E q1 \in ParallelQueries, q2 \in ParallelQueries,
          id1 \in ParallelQueryIds[1], id2 \in ParallelQueryIds[2] :
          call = <<[NoCall EXCEPT !.pc = "start", !.query = q1[1], !.args = q1[2],
                                  !.query_id = id1],
                   [NoCall EXCEPT !.pc = "start", !.query = q2[1], !.args = q2[2],
                                  !.query_id = id2]>>
    /\ http_log = <<>>
    /\ client_params = self_params
    /\ resp = NoResponse
    /\ http = NoHttp
    /\ IdleSeqParser
    /\ IdleConversion
    /\ IdleResultSet
    /\ IdleCsvInsert

\* _execute of one of the gathered calls, lines 142-169: no await lies
\* between them, so the request is built in one step.
ParallelBuild ==
    /\ job = "parallel"
    /\ \E i \in 1..2 :
          /\ call[i].pc = "start"
          /\ \E r \in {execute_request(call[i].query, call[i].args, call[i].json,
                                       call[i].query_id, <<>>)} :
                \E p \in {execute_params(client_params, call[i].args, r.query,
                                         call[i].query_id)} :
                    /\ call' = [call EXCEPT ![i].pc = "built",
                                            ![i].request = [r EXCEPT !.params = p.params]]
                    /\ client_params' = p.stored
    /\ UNCHANGED <<job, csv, spVars, cvVars, rfVars, http_log, resp, http>>

\* _execute of one of the gathered calls, lines 171-190: the call on the
\* HTTP client
ParallelSend ==
    /\ job = "parallel"
    /\ \E i \in 1..2 :
          /\ call[i].pc = "built"
          /\ http_log' = Append(http_log,
                                [method |-> MethodOf(call[i].request),
                                 params |-> call[i].request.params,
                                 data |-> call[i].request.data,
                                 caller |-> i])
          /\ \E b \in {Bind(MethodOf(call[i].request), {"url", "params", "data"})} :
                call' = IF IsRaised(b)
                        THEN [call EXCEPT ![i].pc = "raised", ![i].at = "send",
                                          ![i].exc = b]
                        ELSE [call EXCEPT ![i].pc = "sent"]
    /\ UNCHANGED <<job, csv, spVars, cvVars, rfVars, client_params, resp, http>>

\* iterate, fetch and fetchrow: an exception of _execute passes through the
\* async for of the method and ends the call.
FetchRaised ==
    /\ job = "fetch"
    /\ call.pc = "raised"
    /\ call' = [call EXCEPT !.pc = "done", !.result = call.exc]
    /\ UNCHANGED <<job, csv, spVars, cvVars, rfVars, client_params, http_log, resp, http>>

(***************************************************************************)
(* The HTTP client runs: one call of get, post_no_return or                *)
(* post_return_lines, consumed to its end                                  *)
(***************************************************************************)
InitHttp ==
    /\ job = "http"
    /\ \E method \in HttpMethods :
          http = [NoHttp EXCEPT !.pc = "start", !.method = method,
                                !.kwargs = Signature(method)]
    /\ \E status \in Statuses, chunks \in Chunkings :
          resp = [status |-> status, chunks |-> chunks]
    /\ call = NoCall
    /\ http_log = <<>>
    /\ client_params = self_params
    /\ IdleSeqParser
    /\ IdleConversion
    /\ IdleResultSet
    /\ IdleCsvInsert

\* get and post_no_return
HttpNoReturn ==
    /\ job = "http"
    /\ http.pc = "start"
    /\ http.method \in {"get", "post_no_return"}
    /\ \E r \in {http_no_return(http.method, http.kwargs, resp)} :
          http' = IF IsRaised(r) THEN [http EXCEPT !.pc = "raised", !.exc = r]
                  ELSE [http EXCEPT !.pc = "returned"]
    /\ UNCHANGED <<job, csv, spVars, cvVars, rfVars, client_params, call, http_log, resp>>

\* post_return_lines up to the loop: the request, then _check_response
HttpPost ==
    /\ job = "http"
    /\ http.pc = "start"
    /\ http.method = "post_return_lines"
    /\ \E r \in {http_no_return(http.method, http.kwargs, resp)} :
          http' = IF IsRaised(r) THEN [http EXCEPT !.pc = "raised", !.exc = r]
                  ELSE [http EXCEPT !.pc = "streaming", !.open = TRUE]
    /\ UNCHANGED <<job, csv, spVars, cvVars, rfVars, client_params, call, http_log, resp>>

\* post_return_lines, one turn of the loop over the chunks
HttpChunk ==
    /\ job = "http"
    /\ http.pc = "streaming"
    /\ http.next <= Len(resp.chunks)
    /\ http' = post_return_lines_chunk(
                   http, ChunkPieces(http.buffer,
                                     Split(resp.chunks[http.next], line_separator)))
    /\ UNCHANGED <<job, csv, spVars, cvVars, rfVars, client_params, call, http_log, resp>>

\* post_return_lines after the last chunk: assert not buffer
HttpEnd ==
    /\ job = "http"
    /\ http.pc = "streaming"
    /\ http.next > Len(resp.chunks)
    /\ http' = IF http.buffer # <<>>
               THEN [http EXCEPT !.pc = "raised", !.exc = Raised("AssertionError"),
                                 !.open = FALSE]
               ELSE [http EXCEPT !.pc = "returned", !.open = FALSE]
    /\ UNCHANGED <<job, csv, spVars, cvVars, rfVars, client_params, call, http_log, resp>>

\* post_return_lines, a turn of the loop that the consumer does not let
\* finish: it takes the k-th line of the chunk and returns without closing
\* the generator, as fetchrow, fetchval and execute do from inside their
\* async for.  The generator stays suspended at its yield, inside the
\* async with of the response.
HttpChunkAbandoned ==
    /\ job = "http"
    /\ http.pc = "streaming"
    /\ http.next <= Len(resp.chunks)
    /\ \E lines \in {YieldedOf(ChunkPieces(http.buffer,
                                          Split(resp.chunks[http.next],
                                                line_separator)))} :
          \E k \in 1..Len(lines) :
              http' = [http EXCEPT !.pc = "abandoned",
                                   !.yielded = @ \o SubSeq(lines, 1, k)]
    /\ UNCHANGED <<job, csv, spVars, cvVars, rfVars, client_params, call, http_log, resp>>

\* The event loop finalizes the abandoned generator after the consumer has
\* returned: aclose() raises GeneratorExit at the yield and the async with
\* releases the response.
AsyncGenFinalized ==
    /\ job = "http"
    /\ http.pc = "abandoned"
    /\ http' = [http EXCEPT !.pc = "finalized", !.open = FALSE]
    /\ UNCHANGED <<job, csv, spVars, cvVars, rfVars, client_params, call, http_log, resp>>

NextClient ==
    \/ ParallelBuild
    \/ ParallelSend
    \/ PrepareQueryParams
    \/ BuildRequest
    \/ IsAlive
    \/ SendRequest
    \/ FetchRaised
    \/ HttpNoReturn
    \/ HttpPost
    \/ HttpChunk
    \/ HttpEnd
    \/ HttpChunkAbandoned
    \/ AsyncGenFinalized

SpecClient ==
    (InitClient \/ InitFetch \/ InitIsAlive \/ InitHttp \/ InitParallel)
    /\ [][NextClient]_vars

(***************************************************************************)
(* The CSV-file insert runs                                                *)
(***************************************************************************)
InitCsvInsert ==
    /\ job = "csv"
    /\ \E query \in CsvQueries, args \in CsvArgs, json \in BOOLEAN :
          csv = [NoCsv EXCEPT !.pc = "call", !.query = query, !.args = args,
                              !.json = json]
    /\ IdleSeqParser
    /\ IdleConversion
    /\ IdleResultSet
    /\ IdleClient

\* Lines 140-178: the request is prepared and its branch chosen
CsvExecute ==
    /\ job = "csv"
    /\ csv.pc = "call"
    /\ csv' = csv_execute(csv)
    /\ UNCHANGED <<job, spVars, cvVars, rfVars, clVars>>

\* Lines 179-191: the locals, open(args[0]), and the first batch
CsvOpen ==
    /\ job = "csv"
    /\ csv.pc = "start"
    /\ csv' = csv_open(csv)
    /\ UNCHANGED <<job, spVars, cvVars, rfVars, clVars>>

\* Lines 206-226: the POST of a query that is no CSV insert.  The lines of
\* the response that post_return_lines yields are not followed.
CsvSinglePost ==
    /\ job = "csv"
    /\ csv.pc = "single"
    /\ \E outcome \in PostOutcomes :
          csv' = csv_single_post(
                     [csv EXCEPT !.posts = Append(@, [batch |-> 0,
                                                      data |-> csv.data,
                                                      outcome |-> outcome])],
                     outcome)
    /\ UNCHANGED <<job, spVars, cvVars, rfVars, clVars>>

\* Lines 192-204: one POST of the current batch and what follows it
CsvPost ==
    /\ job = "csv"
    /\ csv.pc = "post"
    /\ \E outcome \in PostOutcomes :
          csv' = csv_after_post(
                     [csv EXCEPT !.posts = Append(@, [batch |-> csv.read,
                                                      data |-> csv.rows,
                                                      outcome |-> outcome])],
                     outcome)
    /\ UNCHANGED <<job, spVars, cvVars, rfVars, clVars>>

NextCsvInsert ==
    \/ CsvExecute
    \/ CsvSinglePost
    \/ CsvOpen
    \/ CsvPost

SpecCsvInsert == InitCsvInsert /\ [][NextCsvInsert]_vars

(***************************************************************************)
(* Reference for the tokenizer claims: the top-level elements of a         *)
(* composite inner text, found with a stack of open brackets and with      *)
(* quoted strings recognised at every nesting level.                       *)
(***************************************************************************)
RefStart ==
    [stack |-> <<>>, quoted |-> FALSE, escaped |-> FALSE, ok |-> TRUE,
     cur |-> <<>>, elems |-> <<>>]

RefSym(r, sym) ==
    IF r.quoted
    THEN [r EXCEPT !.cur = Append(@, sym),
                   !.escaped = ~r.escaped /\ sym = ESCAPE_OP,
                   !.quoted = r.escaped \/ sym # DQ]
    ELSE IF sym = CM /\ r.stack = <<>>
    THEN [r EXCEPT !.elems = Append(@, r.cur), !.cur = <<>>]
    ELSE IF sym = DQ THEN [r EXCEPT !.cur = Append(@, sym), !.quoted = TRUE]
    ELSE IF sym \in {ARR_OP, TUP_OP}
    THEN [r EXCEPT !.cur = Append(@, sym), !.stack = Append(@, sym)]
    ELSE IF sym \in {ARR_CLS, TUP_CLS}
    THEN IF /\ r.stack # <<>>
            /\ r.stack[Len(r.stack)] = (IF sym = ARR_CLS THEN ARR_OP ELSE TUP_OP)
         THEN [r EXCEPT !.cur = Append(@, sym),
                        !.stack = SubSeq(@, 1, Len(@) - 1)]
         ELSE [r EXCEPT !.cur = Append(@, sym), !.ok = FALSE]
    ELSE [r EXCEPT !.cur = Append(@, sym)]

RECURSIVE RefScan(_, _, _)
RefScan(r, raw, i) ==
    IF i > Len(raw) THEN r ELSE RefScan(RefSym(r, raw[i]), raw, i + 1)

\* Brackets and parentheses are balanced and every quoted string is closed.
WellFormed(raw) ==
    LET r == RefScan(RefStart, raw, 1)
    IN  r.ok /\ r.stack = <<>> /\ ~r.quoted

TopLevelElements(raw) ==
    IF raw = <<>> THEN <<>>
    ELSE LET r == RefScan(RefStart, raw, 1) IN Append(r.elems, r.cur)

SeqParserReturned == job = "seq_parser" /\ sp_done

(***************************************************************************)
(* Claims about the codec, checked under SpecCodec                         *)
(***************************************************************************)
\* C3: for every supported wire type T and native value v of that type,
\* decoding py2ch(v) with the descriptor built by what_py_type(T) returns
\* exactly v: no step of the round trip raises and the decoded value is v.
C3_RoundTrip ==
    job = "roundtrip" =>
        /\ cv_pc # "raised"
        /\ cv_pc = "decoded" => cv_out = cv_val

\* C8: the wire type name Tuple(UInt8,Map(String,String)) resolves, and its
\* descriptor decodes (4,{'a':'b'}) to the tuple (4, {a: b}).
C8_TupleOfMap ==
    (job = "decode" /\ cv_type = TTuple2(TUInt8, TMap(TString, TString))) =>
        /\ cv_pc # "raised"
        /\ cv_pc = "decoded" =>
              cv_out = PyTuple(<<PyInt(4),
                                 PyDict(<<(<<PyStr(<<"a">>), PyStr(<<"b">>)>>)>>)>>)

\* C9: for every well-formed composite inner text, seq_parser yields exactly
\* the top-level elements: it splits at the commas that are outside every
\* quoted string and at bracket and parenthesis depth zero, and nowhere else.
C9_TopLevelSplit ==
    (SeqParserReturned /\ WellFormed(sp_raw)) =>
        sp_st.yielded = TopLevelElements(sp_raw)

\* C10: seq_parser yields zero elements for the empty string, the three
\* elements a, b, c in order for a,b,c, two elements for (1,2),(3,4), and one
\* element for the quoted string 'a,b'.
C10_TokenizerExamples ==
    SeqParserReturned =>
        /\ sp_raw = <<>> => sp_st.yielded = <<>>
        /\ sp_raw = RawABC => sp_st.yielded = <<(<<"a">>), (<<"b">>), (<<"c">>)>>
        /\ sp_raw = RawTwoTuples =>
              sp_st.yielded = <<(<<"(", "1", ",", "2", ")">>),
                                (<<"(", "3", ",", "4", ")">>)>>
        /\ sp_raw = RawQuotedComma => sp_st.yielded = <<RawQuotedComma>>

\* C10 witness: the scan of (1,2),(3,4) has returned after yielding twice.
C10_Witness ==
    SeqParserReturned /\ sp_raw = RawTwoTuples /\ Len(sp_st.yielded) = 2

\* The escape table as the design states it, and the left-to-right reading
\* of a wire text by escape pairs; a backslash with no byte after it stands
\* outside every pair.
EscapeTable(c) ==
    CASE c = "b" -> <<BS>>
      [] c = "N" -> <<"\\", "N">>
      [] c = "f" -> <<"\f">>
      [] c = "r" -> <<"\r">>
      [] c = "n" -> <<"\n">>
      [] c = "t" -> <<"\t">>
      [] c = "0" -> <<" ">>
      [] c = "'" -> <<"'">>
      [] c = "\\" -> <<"\\">>
      [] OTHER -> <<c>>

RECURSIVE ByPairs(_)
ByPairs(val) ==
    IF val = <<>> THEN <<>>
    ELSE IF val[1] = "\\" /\ Len(val) >= 2
    THEN EscapeTable(val[2]) \o ByPairs(SubSeq(val, 3, Len(val)))
    ELSE <<val[1]>> \o ByPairs(Tail(val))

\* C13: decode reads its input left to right, every backslash taking the byte
\* after it: the pair becomes the table entry of that byte, or the byte alone
\* when the table has none; every other byte is kept, and an input without a
\* backslash comes back unchanged.
C13_DecodeByPairs ==
    (job = "escape" /\ cv_pc = "decoded") =>
        /\ cv_out = PyStr(ByPairs(cv_wire.v))
        /\ (Find(cv_wire.v, "\\") = 0 => cv_out.v = cv_wire.v)

C13_Witness ==
    /\ job = "escape"
    /\ cv_pc = "decoded"
    /\ cv_wire.v = <<"\\", "\\", "\\", "x">>
    /\ cv_out.v = <<"\\", "x">>

\* C12: a string of tabs, backslashes, single quotes, newlines and ordinary
\* characters, written by StrType.unconvert and read back as a nested String
\* element, alone or as an element of an Array or a Tuple split by
\* seq_parser, comes back equal to itself.
C12_NestedStringRoundTrip ==
    (job = "nested" /\ cv_pc \in {"decoded", "raised"}) =>
        /\ cv_pc = "decoded"
        /\ cv_out = cv_val

C12_Witness ==
    /\ job = "nested"
    /\ cv_pc = "decoded"
    /\ cv_type = TTuple2(TUInt8, TString)
    /\ cv_val = PyTuple(<<PyInt(4), PyStr(<<"'", "\\">>)>>)
    /\ cv_out = cv_val

\* C11: for every type name that resolves to no descriptor, what_py_type
\* raises ChClientError naming the offending type, and no other exception
\* escapes to the caller.
C11_UnresolvableIsChClientError ==
    (job = "resolve" /\ cv_pc # "encoded") =>
        /\ cv_pc = "raised"
        /\ cv_desc.v = "ChClientError"

(***************************************************************************)
(* Claims about the result set, checked under SpecRecord                   *)
(***************************************************************************)
HeaderFields(line) == Split(Strip(line, WS), "\t")

RowFields(rec) == Split(rec.raw, "\t")

\* The converters that _decode pairs with a field of the row.
Paired(rec) == 1..Min(Len(rec._converters), Len(RowFields(rec)))

\* C1: building RecordsFabric from a names line and a types line with
\* different numbers of tab-separated fields raises, so no Record is ever
\* made from such a pair of header lines.
C1_HeaderMismatchRejected ==
    (job = "record" /\ fabric # PyNone
        /\ Len(HeaderFields(rf_names)) # Len(HeaderFields(rf_tps))) =>
        /\ IsRaised(fabric)
        /\ record = PyNone

\* C2: accessing a Record of a non-empty data line whose number of fields
\* differs from the number of column converters raises, and a decoded Record
\* holds exactly len(record) values.
C2_RowLengthChecked ==
    (job = "record" /\ record # PyNone /\ record.raw # <<>>) =>
        /\ (record_res.op = "getitem"
                /\ Len(RowFields(record)) # Len(record._converters)) =>
              IsRaised(record_res.val)
        /\ record._row.t = "tuple" => Len(record._row.v) = Record_len(record)

\* C7 as stated: a Record that was never accessed holds raw bytes and has
\* run no converter; once it was accessed, every converter paired with a
\* field has run exactly once, whatever the number of accesses.
C7_ConvertersOnce ==
    (job = "record" /\ record # PyNone) =>
        /\ record.accessed = 0 =>
              /\ record._row.t = "bytes"
              /\ \A i \in 1..Len(record.calls) : record.calls[i] = 0
        /\ record.accessed >= 1 =>
              \A i \in Paired(record) : record.calls[i] = 1

\* C7: a Record that was never accessed holds raw bytes and has run no
\* converter; an access that gets through _decode leaves the row decoded;
\* and a decoded Record holds a tuple with every paired converter run
\* exactly once, whatever the number of accesses.  A Record that is
\* accessed and not decoded is one whose last _decode raised.
C7_DecodeOnce ==
    (job = "record" /\ record # PyNone) =>
        /\ record.accessed = 0 =>
              /\ record._row.t = "bytes"
              /\ \A i \in 1..Len(record.calls) : record.calls[i] = 0
        /\ (record_res.op = "getitem" /\ ~record_res.in_decode) =>
              record._decoded
        /\ (record._decoded /\ record.raw # <<>>) =>
              /\ record._row.t = "tuple"
              /\ Len(record._row.v) = Cardinality(Paired(record))
              /\ \A i \in 1..Len(record.calls) :
                    record.calls[i] = IF i \in Paired(record) THEN 1 ELSE 0
        /\ (record.accessed >= 1 /\ ~record._decoded) =>
              \E i \in Paired(record) : record.calls[i] = record.accessed

\* C7 witness: a Record of two converted columns was accessed twice and each
\* of its converters has run once.
C7_Witness ==
    /\ job = "record" /\ record # PyNone
    /\ record.accessed = 2
    /\ record._decoded
    /\ record._row.t = "tuple"
    /\ Len(record._row.v) = 2
    /\ rf_convert
    /\ record.calls = <<1, 1>>

FabricAlone(f) == RecordsFabric_init(rf_tps[f], rf_names[f], TRUE)

\* The Record of a data line of result set f, decoded on its own.
DecodedAlone(fab, raw) ==
    Record_decode(Record_init(raw, fab.names, fab.converters)).rec

SameAsAlone(fab, rec) ==
    /\ rec.shared => (rec._names = fab.names /\ rec._converters = fab.converters)
    /\ rec._decoded => rec._row = DecodedAlone(fab, rec.raw)._row
    /\ (rec.accessed >= 1) => rec._decoded = DecodedAlone(fab, rec.raw)._decoded

\* C22: whatever the interleaving of the rows of two result sets, no decode
\* and no access changes the converters list or the name-to-index map that
\* the Records of one result set share, and every Record decodes to the
\* values it has when its result set is processed alone.
C22_NoCrossTalk ==
    job = "sets" =>
        /\ \A f \in 1..2 : fabric[f] # PyNone => fabric[f] = FabricAlone(f)
        /\ \A i \in 1..Len(record) :
              SameAsAlone(FabricAlone(record[i].set), record[i].rec)

C22_Witness ==
    /\ job = "sets"
    /\ Len(record) = 3
    /\ record[1].set = 1 /\ record[2].set = 2 /\ record[3].set = 1
    /\ rf_tps[1] # rf_tps[2]
    /\ record[1].rec._decoded /\ record[1].rec.shared
    /\ record[2].rec._decoded /\ record[2].rec.shared
    /\ record[3].rec._decoded /\ record[3].rec.shared

\* The result set has the single column a of type String.
OneStringColumn ==
    /\ rf_names = Line(<<(<<"a">>)>>)
    /\ rf_tps = Line(<<TString>>)

\* C18: in a result set with a single String column, the data row of the
\* empty string is a Record of length 1 whose value by name and by index 0
\* is the empty string.
C18_EmptyStringRow ==
    (job = "record" /\ OneStringColumn /\ record # PyNone
        /\ record.raw = Join(<<"\t">>, <<(<<>>)>>)) =>
        /\ record_res.op = "len" => record_res.val = PyInt(1)
        /\ (record_res.op = "getitem"
                /\ record_res.key \in {PyInt(0), PyStr(<<"a">>)}) =>
               record_res.val = PyStr(<<>>)

(***************************************************************************)
(* Claims about the client and the HTTP clients, checked under SpecClient  *)
(***************************************************************************)
\* The call got as far as a statement type, and it is not INSERT.
NotInsert ==
    /\ call.prepared # PyNone
    /\ ~IsRaised(str_format(call.query, call.prepared.v))
    /\ call.query # <<>>
    /\ get_type(str_format(call.query, call.prepared.v).v) # "INSERT"

\* C4: when _execute is called with positional arguments and the statement
\* type of the query is not INSERT, it raises ChClientError, and no call on
\* the HTTP client has been made when it does.
C4_ArgsOnlyForInsert ==
    (job = "client" /\ call.args # <<>> /\ NotInsert
        /\ call.pc \notin {"start", "prepared"}) =>
        /\ call.pc = "raised"
        /\ call.exc = Raised("ChClientError")
        /\ http_log = <<>>

\* C4 witness: a SELECT called with a row of arguments has raised
\* ChClientError.
C4_Witness ==
    /\ job = "client"
    /\ call.query = SelectOne
    /\ call.args # <<>>
    /\ call.pc = "raised"
    /\ call.exc = Raised("ChClientError")

\* The query after interpolation, before any directive is appended.
Interpolated == str_format(call.query, call.prepared.v).v

\* The number of FORMAT keywords of a query.
FormatClauses(query) ==
    Cardinality({i \in 1..Len(query) : IsKeyword(query[i], "FORMAT")})

\* C14: a query that names a format itself, of whatever kind, is sent with
\* its text unchanged, and the query _execute has built has at most one
\* FORMAT clause.
C14_OneFormatClause ==
    (job = "client" /\ call.request # PyNone) =>
        /\ FormatClauses(call.request.query) <= 1
        /\ (FormatAt(Interpolated) # 0 => call.request.query = Interpolated)

\* The query text holds text between braces.
HasBraces(query) == \E i \in 1..Len(query) : query[i].t = "field"

\* C15: called without params, a query with text between braces raises no
\* error while it is interpolated, and the query built starts with the text
\* of the call, braces included.
C15_BracesKeptWithoutParams ==
    (job = "client" /\ call.query_params \in {PyNone, PyDict(<<>>)}
        /\ HasBraces(call.query) /\ call.pc \notin {"start", "prepared"}) =>
        /\ call.exc # Raised("KeyError")
        /\ call.request # PyNone =>
               SubSeq(call.request.query, 1, Len(call.query)) = call.query

\* The POSTs of batch b, and those of them that failed with a broken pipe.
PostsOf(b) == {i \in 1..Len(csv.posts) : csv.posts[i].batch = b}

BrokenPipe(i) ==
    /\ IsRaised(csv.posts[i].outcome)
    /\ csv.posts[i].outcome.v = "ClientOSError"
    /\ csv.posts[i].outcome.errno = 32

\* C20: in a CSV-file insert a batch whose POST failed with a broken pipe is
\* posted again, no batch is posted more than 3 times, the count of failures
\* starts at 0 for every batch, and the third broken pipe in a row of one
\* batch ends the process with a fatal exit, no later batch being posted.
C20_BoundedRetries ==
    (job = "csv" /\ csv.branch = "csv") =>
        /\ \A b \in 1..Len(csv.csvfile) : Cardinality(PostsOf(b)) <= 3
        /\ \A i \in 1..Len(csv.posts) :
              BrokenPipe(i) =>
                  IF i < Len(csv.posts)
                  THEN csv.posts[i + 1].batch = csv.posts[i].batch
                  ELSE \/ csv.pc = "post" /\ csv.read = csv.posts[i].batch
                       \/ csv.pc = "exited"
        /\ csv.pc = "post" =>
              csv.retry = Cardinality({i \in PostsOf(csv.read) : BrokenPipe(i)})
        /\ csv.pc = "exited" <=>
              /\ Cardinality({i \in PostsOf(csv.read) : BrokenPipe(i)}) = 3
              /\ Cardinality(PostsOf(csv.read)) = 3
        /\ csv.pc = "exited" =>
              /\ csv.exc = RaisedWith("SystemExit", 1)
              /\ \A i \in 1..Len(csv.posts) : csv.posts[i].batch <= csv.read

\* C20, the order of events: once the process has exited, or the insert has
\* ended in any other way, nothing more is posted.
C20_NoPostAfterExit ==
    [][csv.pc \in {"exited", "raised", "done"} => csv' = csv]_vars

C20_Witness ==
    /\ job = "csv"
    /\ csv.pc = "exited"
    /\ csv.read = 2
    /\ Len(csv.posts) = 5
    /\ Len(csv.csvfile) = 3

\* C21: is_alive returns True exactly when the probe GET is answered with
\* status 200, and returns False, raising nothing, for every failure of the
\* probe: any other status, and a server that cannot be reached.
C21_IsAliveNeverRaises ==
    (job = "is_alive" /\ call.pc = "done") =>
        call.result = PyBool(resp.connected /\ resp.status = 200)

\* The body of the response, as the server sent it.
Body == Concat(resp.chunks)

\* The lines of the response, each with its separator.
ResponseLines == YieldedOf(Split(Body, line_separator))

\* The records of the data lines of a tab-format response.
RecordsOf(lines) ==
    [k \in 1..(Len(lines) - 2) |->
        RecordsFabric_new(RecordsFabric_init(lines[2], lines[1], TRUE),
                          lines[k + 2])]

\* C16: for a tab-format response of n >= 2 lines, iterate yields the n-2
\* records of lines 3..n in stream order and never the two header lines,
\* fetch returns the same records as a list, and fetchrow returns the first
\* of them, or None when n = 2.
C16_RecordsOfDataLines ==
    (job = "fetch" /\ call.pc = "done" /\ Len(ResponseLines) >= 2) =>
        /\ ~IsRaised(call.result)
        /\ call.method \in {"iterate", "fetch"} =>
               call.result = PyList(RecordsOf(ResponseLines))
        /\ call.method = "fetchrow" =>
               call.result = (IF Len(ResponseLines) = 2 THEN PyNone
                              ELSE RecordsOf(ResponseLines)[1])

\* C19: when the consumer of a fetch stops before the response is exhausted,
\* the response stream has been closed by the time its call returns.
C19_ClosedWhenAbandoned ==
    (job = "http" /\ http.pc = "abandoned") => ~http.open

\* text is bytes decoded: every valid byte as it is, every invalid byte as
\* the replacement character.
IsDecoded(text, bytes) ==
    /\ Len(text) = Len(bytes)
    /\ \A i \in 1..Len(bytes) :
          text[i] = IF bytes[i] = BadByte THEN ReplacementChar ELSE bytes[i]

\* C5: for get, post_no_return and post_return_lines a response whose
\* status is not 200 raises ChClientError with the decoded body as its
\* message, and post_return_lines has yielded no line when it does.
C5_BadStatusRaises ==
    (job = "http" /\ resp.status # 200) =>
        /\ http.yielded = <<>>
        /\ http.pc \in {"start", "raised"}
        /\ http.pc = "raised" =>
              /\ http.exc.v = "ChClientError"
              /\ IsDecoded(http.exc.msg, Body)

\* C5 witness: post_return_lines has raised on a status 500 response whose
\* body holds a line and an invalid byte.
C5_Witness ==
    /\ job = "http"
    /\ http.method = "post_return_lines"
    /\ resp.status = 500
    /\ Body = <<"a", line_separator, BadByte>>
    /\ http.pc = "raised"
    /\ http.exc.msg = <<"a", line_separator, ReplacementChar>>

\* The position at which a scanner that honours backslash escapes sees the
\* literal opened at text[1] closed, scanning from position i; 0 when the
\* literal is never closed.
RECURSIVE LiteralEnd(_, _)
LiteralEnd(text, i) ==
    IF i > Len(text) THEN 0
    ELSE IF text[i] = ESCAPE_OP THEN LiteralEnd(text, i + 2)
    ELSE IF text[i] = DQ THEN i
    ELSE LiteralEnd(text, i + 1)

OneQuotedLiteral(text) ==
    /\ Len(text) >= 2
    /\ text[1] = DQ
    /\ LiteralEnd(text, 2) = Len(text)

\* The string passed as the query parameter, when there is one.
HasStringParam ==
    /\ call.query_params.t = "dict"
    /\ HasKey(call.query_params.v, PyStr(ParamName))
    /\ ItemOf(call.query_params.v, PyStr(ParamName)).t = "str"

\* C6: for every string parameter value, the text _prepare_query_params
\* makes of it is one single-quoted literal that no quote ends before its
\* last character, and that text is what the query carries in place of the
\* parameter.
C6_ParamIsOneLiteral ==
    (job = "client" /\ call.pc # "start" /\ HasStringParam) =>
        /\ call.prepared # PyNone
        /\ OneQuotedLiteral(ItemOf(call.prepared.v, PyStr(ParamName)).v)
        /\ call.request # PyNone =>
              \A i \in 1..Len(call.request.query) :
                  call.request.query[i].t = "text" =>
                      OneQuotedLiteral(call.request.query[i].v)

\* C6 witness: a value made of a backslash and a quote was substituted into
\* a SELECT.
C6_Witness ==
    /\ job = "client"
    /\ call.query = SelectParam
    /\ call.query_params = PyDict(<<(<<PyStr(ParamName), PyStr(<<"\\", "'">>)>>)>>)
    /\ call.request # PyNone
    /\ call.request.query[2] = Literal(<<"'", "\\", "\\", "\\", "'", "'">>)

\* C23: for a top-level String, FixedString or Enum column the decoded value
\* is BaseType.decode of the wire bytes, applied once: backslash, backslash,
\* n decodes to a backslash and an n.
C23_TopLevelStrDecodedOnce ==
    (job = "decode" /\ cv_type \in TopLevelStrNames /\ cv_pc = "decoded") =>
        cv_out = PyStr(decode(cv_wire.v))

\* C24: decoding a Map wire literal with n >= 0 top-level key:value pairs
\* gives the mapping with exactly those n entries: {} gives the empty
\* mapping and a literal with two pairs gives two entries.
C24_MapHasEveryPair ==
    \A m \in MapLiterals :
        (/\ job = "decode"
         /\ cv_type = TMap(TString, TString)
         /\ cv_wire.v = m[1]
         /\ cv_pc \in {"decoded", "raised"}
         /\ cv_desc # PyNone) =>
            cv_out = m[2]

\* C25: for every resolvable inner type T, parameterised ones included, and
\* for aggregate functions with parameters of their own, the descriptor
\* resolved for AggregateFunction(f, T) or SimpleAggregateFunction(f, T)
\* decodes a wire value exactly as the descriptor for T does.
C25_AggregateDecodesAsInner ==
    \A c \in AggregateCases :
        (/\ job = "decode"
         /\ cv_type = c[1]
         /\ cv_wire.v = c[3]
         /\ cv_pc \in {"decoded", "raised"}) =>
            /\ cv_pc = "decoded"
            /\ cv_out = convert(what_py_type(c[2], FALSE), c[3])

\* The number of consecutive backslashes that end right before position i.
RECURSIVE BackslashesBefore(_, _)
BackslashesBefore(raw, i) ==
    IF i > 1 /\ raw[i - 1] = ESCAPE_OP THEN 1 + BackslashesBefore(raw, i - 1)
    ELSE 0

\* C26: while seq_parser is inside a top-level quoted string, a quote after
\* an odd number of consecutive backslashes leaves it inside the string and
\* a quote after an even number (zero included) ends the string; the
\* escape flag is never set outside a quoted string.
C26_QuoteEndsOnEvenBackslashes ==
    [][job = "seq_parser" =>
          /\ sp_st'.escape_char => sp_st'.in_str
          /\ (sp_st.in_str /\ sp_pos' = sp_pos + 1 /\ sp_raw[sp_pos + 1] = DQ) =>
                (sp_st'.in_str <=> BackslashesBefore(sp_raw, sp_pos + 1) % 2 = 1)]_vars

\* C26 witness: in a string opened at the first symbol, the quote after one
\* backslash was passed with the string still open, and the quote that
\* follows it, after no backslash, has ended the string.
C26_Witness ==
    /\ job = "seq_parser"
    /\ sp_raw = <<DQ, ESCAPE_OP, DQ, DQ>>
    /\ sp_pos = 4
    /\ ~sp_st.in_str
    /\ ~sp_st.escape_char
    /\ sp_st.cur = sp_raw

\* C27: the branch that opens args[0] as a file is entered only for an
\* INSERT called with exactly one positional argument, and a query called
\* without positional arguments, whatever FORMAT it names, is sent as one
\* POST whose body is the query text.
C27_CsvBranchNeedsOneArgument ==
    job = "csv" =>
        /\ csv.branch = "csv" =>
              /\ get_type(csv.query) = "INSERT"
              /\ Len(csv.args) = 1
        /\ (csv.args = <<>> /\ csv.pc \in {"done", "raised", "exited"}) =>
              /\ Len(csv.posts) = 1
              /\ csv.posts[1].data = Bytes(csv.query)

\* The POST at position i of the log returned without an exception.
Succeeded(i) == ~IsRaised(csv.posts[i].outcome)

\* C28: in a CSV-file insert the batches are posted in file order: batch
\* i+1 is not posted before a POST of batch i has succeeded, no batch is
\* posted again after its POST succeeded, and an error other than broken
\* pipe is propagated at its first occurrence, no POST following it.
C28_BatchesInFileOrder ==
    (job = "csv" /\ csv.branch = "csv") =>
        /\ \A i \in 1..Len(csv.posts) :
              /\ csv.posts[i].batch \in 1..Len(csv.csvfile)
              /\ csv.posts[i].data = csv.csvfile[csv.posts[i].batch]
              /\ csv.posts[i].batch =
                    1 + Cardinality({j \in 1..(i - 1) : Succeeded(j)})
              /\ \A j \in 1..(i - 1) :
                    csv.posts[j].batch = csv.posts[i].batch => ~Succeeded(j)
              /\ (~Succeeded(i) /\ ~BrokenPipe(i)) =>
                    /\ i = Len(csv.posts)
                    /\ csv.pc = "raised"
                    /\ csv.exc = csv.posts[i].outcome
        /\ csv.pc = "done" =>
              \A b \in 1..Len(csv.csvfile) : \E i \in PostsOf(b) : Succeeded(i)

\* C28 witness: a file of three batches was posted to its end, the second
\* batch twice because of a broken pipe.
C28_Witness ==
    /\ job = "csv"
    /\ csv.pc = "done"
    /\ Len(csv.csvfile) = 3
    /\ Len(csv.posts) = 4
    /\ BrokenPipe(2)
    /\ csv.posts[4].batch = 3

\* The items of a request's params other than the query and the query_id.
StoredItems(items) ==
    SelectSeq(items, LAMBDA item : item[1] \notin {"query", "query_id"})

\* The params carry the query and the query_id of the call c and of no
\* other call.
OwnParams(items, c) ==
    /\ StoredItems(items) = self_params
    /\ HasKey(items, "query") =>
          c.args # <<>> /\ ItemOf(items, "query") = c.request.query
    /\ HasKey(items, "query_id") <=> c.query_id # PyNone
    /\ HasKey(items, "query_id") => ItemOf(items, "query_id") = c.query_id

\* C29: _execute never modifies the client's stored params, and under any
\* interleaving of concurrent calls on one client the request of each call
\* carries that call's own query and query_id only: a query_id passed to
\* one call never appears in the request of another.
C29_CallsShareNoParams ==
    job = "parallel" =>
        /\ client_params = self_params
        /\ \A i \in 1..2 :
              call[i].request # PyNone => OwnParams(call[i].request.params, call[i])
        /\ \A k \in 1..Len(http_log) :
              OwnParams(http_log[k].params, call[http_log[k].caller])

\* C29 witness: the first call, with the query_id q1, built its request
\* and made its call on the HTTP client before the second call, which has
\* no query_id, built its own; both have made their call.
C29_Witness ==
    /\ job = "parallel"
    /\ call[1].query_id = PyStr(<<"q1">>)
    /\ call[2].query_id = PyNone
    /\ call[1].args # <<>>
    /\ call[2].args = <<>>
    /\ Len(http_log) = 2
    /\ http_log[1].caller = 1
    /\ http_log[2].caller = 2

\* A separator-terminated line: one separator, at its end.
OneLine(line) ==
    /\ line # <<>>
    /\ line[Len(line)] = line_separator
    /\ \A k \in 1..(Len(line) - 1) : line[k] # line_separator

\* C30: for a body that ends with a line separator, however it is cut into
\* chunks, empty chunks and cuts inside a line included, post_return_lines
\* yields every separator-terminated line of the body once, in order and
\* with its separator: the yielded lines put end to end are the body.
C30_LinesWhateverTheChunks ==
    (/\ job = "http"
     /\ http.method = "post_return_lines"
     /\ resp.status = HTTP_OK
     /\ Body # <<>>
     /\ Body[Len(Body)] = line_separator
     /\ http.pc \in {"returned", "raised"}) =>
        /\ http.pc = "returned"
        /\ Concat(http.yielded) = Body
        /\ \A k \in 1..Len(http.yielded) : OneLine(http.yielded[k])

\* C30 witness: the body of two lines arrived cut inside its first line and
\* both lines were yielded.
C30_Witness ==
    /\ job = "http"
    /\ http.method = "post_return_lines"
    /\ resp.status = HTTP_OK
    /\ resp.chunks = <<(<<"a">>), (<<line_separator, line_separator>>)>>
    /\ http.pc = "returned"
    /\ http.yielded = <<(<<"a", line_separator>>), (<<line_separator>>)>>

=============================================================================
